---- MODULE Spec2Model ----
(***************************************************************************)
(* Verification model of the MusicSync audio pipeline: the capture frame   *)
(* assembler, the analysis buffer, the advanced threshold, the onset       *)
(* detectors, the sink fan-out and the polling helpers.                    *)
(*                                                                         *)
(* Each subsystem has its own specification (SpecAsm, SpecThr, ...) over   *)
(* its own variables; the variables of the other subsystems stay at their  *)
(* constructed values.  f32 quantities are modelled in exact fixed point   *)
(* (integers in the unit named next to each definition).                   *)
(***************************************************************************)
EXTENDS Integers, Sequences, FiniteSets, TLC

VARIABLES
    \* ---- frame assembler (utils/audiodevices.rs, create_monitor_stream)
    channels,       \* audio_cfg.channels()
    buffer_size,    \* processing_settings.buffer_size * channels
    hop_size,       \* processing_settings.hop_size * channels
    buffer,         \* VecDeque of captured interleaved samples (stream indices)
    received,       \* interleaved samples delivered by the device so far
    chunks,         \* set of sizes (per channel) of the callbacks so far
    frames,         \* frames handed to process_raw, in order
    \* ---- advanced threshold (utils/audioprocessing/threshold.rs)
    threshold,      \* the AdvancedThreshold struct
    inputs,         \* values passed to is_above so far
    emitted,        \* values returned by is_above so far
    \* ---- analysis buffer (utils/audioprocessing/mod.rs, Buffer)
    detection_buffer,   \* the Buffer struct
    last_data,          \* the frame of the last process_raw call
    dirty,              \* some output field was non-zero before that call
    fft_error,          \* the FFT reported an error during that call
    \* ---- onset detectors (utils/audioprocessing/spectral_flux.rs, hfc.rs)
    spec_flux,          \* the SpecFlux struct
    sf_onsets,          \* onsets SpecFlux emitted for the last frame
    hfc,                \* the Hfc struct
    hfc_onsets,         \* onsets Hfc emitted for the last frame
    det_frame,          \* spectrum, peak and rms of the last frame
    det_count,          \* frames detected so far
    \* ---- polling helper (utils/lights/mod.rs and utils/lights.rs)
    poll_task,          \* position of the background polling task / thread
    lock,               \* holder of the mutex around the sink state
    audio,              \* position of the audio thread's call into the sink
    channel,            \* messages in the shutdown channel
    rx_alive,           \* the receiver has not been dropped
    drop_pc,            \* position of PollingHelper::drop
    send_task,          \* the task Drop spawns to send the signal
    drop_ctx,           \* where Drop runs relative to the runtime
    workers,            \* worker threads of the runtime
    stream,             \* "open" or "closed"
    writes,             \* datagrams written to the stream
    write_after_drop,   \* a write ended after Drop had returned
    write_after_close,  \* a write ended after the stream was closed
    \* ---- sink fan-out (utils/audiodevices.rs, utils/lights/mod.rs)
    lightservices,      \* the sinks, each a variant of LightService
    calls,              \* per sink, the calls it received, in order
    disp_frame,         \* frames dispatched so far
    \* ---- startup (utils/config.rs, utils/audiodevices.rs)
    config,             \* the configured endpoints and whether each connects
    startup,            \* "configured", then "started" or "failed"
    started,            \* the sink list handed to the audio stream
    \* ---- bridge sink (utils/lights/hue.rs, utils/lights/envelope.rs)
    now,                \* the monotonic clock, in milliseconds
    hue_state,          \* the State behind the bridge sink's mutex
    hue_event,          \* the onset of the last process_onset call
    hue_datagram,       \* the bytes of the last poll, <<>> before any
    \* ---- mel filter bank (utils/audioprocessing/mod.rs)
    mel_bank,           \* the MelFilterBank
    mel_spectrum,       \* the freq_bins of the last filter call
    mel_out,            \* the out slice after the last filter call, or its panic
    \* ---- LED-strip sinks (utils/lights/wled.rs)
    wled_now,           \* the monotonic clock, in milliseconds
    spectrum_state,     \* the SpectrumState behind the spectrum sink's mutex
    spectrum_datagram,  \* the bytes of its last poll, <<>> before any
    spectrum_received,  \* history: the number of samples process_samples got
    spectrum_blocks,    \* history: for each pixel, the first and last sample
                        \* (by arrival number) its band energies were taken from
    onset_state,        \* the OnsetState behind the onset sink's mutex
    onset_datagram,     \* the bytes of its last poll, <<>> before any
    \* ---- file serializer (utils/lights/serialize.rs)
    onset_container,    \* the OnsetContainer
    ser_calls,          \* history: the process_onset calls, each with its frame
    ser_updates,        \* history: the number of update calls
    \* ---- capture pipeline on a silent stream (utils/audiodevices.rs)
    pipeline,           \* the state the capture callback owns, and what is left to deliver
    \* ---- processing nodes (src/nodes)
    node,               \* the node: its settings, handle, stop signal, saved buffer
    node_tasks,         \* every forwarding task the node has spawned, in order
    upstream,           \* the followed node's channel: items sent, closed or not
    subscribers,        \* whether the node's own channel has a receiver
    node_sent,          \* history: the outputs the node has sent
    node_received,      \* history: the items its tasks have received
    \* ---- file benchmark (utils/benchmark.rs)
    file                \* process_file: its settings, buffer, frame count and outcome

asmVars == <<channels, buffer_size, hop_size, buffer, received, chunks, frames>>
thrVars == <<threshold, inputs, emitted>>
bufVars == <<detection_buffer, last_data, dirty, fft_error>>
detVars == <<spec_flux, sf_onsets, hfc, hfc_onsets, det_frame, det_count>>

pollVars == <<poll_task, lock, audio, channel, rx_alive, drop_pc, send_task,
              drop_ctx, workers, stream, writes, write_after_drop,
              write_after_close>>

sinkVars == <<lightservices, calls, disp_frame>>

startVars == <<config, startup, started>>

hueVars == <<now, hue_state, hue_event, hue_datagram>>

melVars == <<mel_bank, mel_spectrum, mel_out>>

wledVars == <<wled_now, spectrum_state, spectrum_datagram, spectrum_received,
              spectrum_blocks, onset_state, onset_datagram>>

serVars == <<onset_container, ser_calls, ser_updates>>

pipeVars == <<pipeline>>

nodeVars == <<node, node_tasks, upstream, subscribers, node_sent, node_received>>

fileVars == <<file>>

vars == <<asmVars, thrVars, bufVars, detVars, pollVars, sinkVars, startVars,
          hueVars, melVars, wledVars, serVars, pipeVars, nodeVars, fileVars>>

(***************************************************************************)
(* Bounds                                                                  *)
(***************************************************************************)
MaxChannels == 2
MaxBuffer == 3
MaxChunk == 4
MaxTotal == 8
MaxCalls == 6
MaxValue == 2
MaxSample == 1
MaxBufferSize == 2
MaxFrames == 4
MaxWorkers == 2
MaxWrites == 2
MaxSinks == 2
MaxEndpoints == 2
MaxTicks == 3
MaxStrength == 1
MaxHueChannels == 1
MaxBands == 3
MaxHz == 4
MaxLeds == 4
MaxPerLed == 2
MaxSamples == 3
MaxReceived == 6
MaxNodeSize == 2
MaxMsg == 2
MaxItems == 3
MaxTasks == 2
MaxOnsets == 3
MaxUpdates == 2

(***************************************************************************)
(* Helpers                                                                 *)
(***************************************************************************)
Max2(a, b) == IF a >= b THEN a ELSE b
Min2(a, b) == IF a <= b THEN a ELSE b

\* usize::saturating_sub
SaturatingSub(a, b) == IF a >= b THEN a - b ELSE 0

(***************************************************************************)
(* Frame assembler                                                         *)
(***************************************************************************)
\* n = (buffer.len() + hop_size).saturating_sub(buffer_size) / hop_size
NumFramesNoHop(len, hop, size) == SaturatingSub(len, size) \div hop
NumFrames(len, hop, size) == SaturatingSub(len + hop, size) \div hop

\* &buffer.make_contiguous()[0..buffer_size]
FrameSlice(buf, size) == SubSeq(buf, 1, size)

\* buffer.drain(0..hop_size)
DrainHopBack(buf, hop) == SubSeq(buf, 1, Len(buf) - hop)
DrainHop(buf, hop) == SubSeq(buf, hop + 1, Len(buf))

\* a loop that hands over its frames without draining the queue
RECURSIVE FrameLoopKeep(_, _, _, _)
FrameLoopKeep(buf, n, hop, size) ==
    IF n = 0 THEN <<buf, <<>>>>
    ELSE LET rest == FrameLoopKeep(buf, n - 1, hop, size)
         IN  <<rest[1], <<FrameSlice(buf, size)>> \o rest[2]>>

\* (0..n).for_each(|_| { process_raw(frame); ...; buffer.drain(0..hop_size) })
\* result: <<queue after the loop, frames handed over by the loop>>
RECURSIVE FrameLoop(_, _, _, _)
FrameLoop(buf, n, hop, size) ==
    IF n = 0 THEN <<buf, <<>>>>
    ELSE LET rest == FrameLoop(DrainHop(buf, hop), n - 1, hop, size)
         IN  <<rest[1], <<FrameSlice(buf, size)>> \o rest[2]>>

\* the data of the next callback: k samples per channel of the capture stream,
\* each sample identified by its interleaved index in the stream
NextData(k) == [i \in 1..(k * channels) |-> received + i - 1]


(***************************************************************************)
(* Advanced threshold.  Inputs and fixed_threshold are integers in one     *)
(* common unit, dynamic_threshold is in hundredths; the comparison of      *)
(* is_above is evaluated exactly (cross-multiplied), without f32 rounding. *)
(***************************************************************************)
\* VecDeque::with_capacity(12)
PastCapacity == 12
\* past_samples.extend(vec![0.0; 8])
PastInitial == 8
\* return self.last_onset == 2
Delay == 2

RECURSIVE SumSeq(_)
SumSeq(s) == IF s = <<>> THEN 0 ELSE Head(s) + SumSeq(Tail(s))

\* iter().take(n)
Take(s, n) == SubSeq(s, 1, Min2(n, Len(s)))

\* fold(0.0_f32, |a, &b| a.max(b))
RECURSIVE FoldMax(_)
FoldMax(s) == IF s = <<>> THEN 0 ELSE Max2(Head(s), FoldMax(Tail(s)))

\* value >= max && value >= mean + norm * dynamic_threshold + fixed_threshold
\* with max, mean, norm taken over the front of `past` (most recent first)
ExceedsThreshold(t, past, value) ==
    LET max == FoldMax(Take(past, t.max_range))
        sumMean == SumSeq(Take(past, t.mean_range))
        sumNorm == SumSeq(Take(past, t.threshold_range))
    IN  /\ value >= max
        /\ 100 * t.mean_range * t.threshold_range * value
             >= 100 * t.threshold_range * sumMean
                + t.dynamic_threshold * t.mean_range * sumNorm
                + 100 * t.mean_range * t.threshold_range * t.fixed_threshold

\* pop_back / push_front
PushFront(past, value) ==
    IF Len(past) >= PastCapacity
    THEN <<value>> \o SubSeq(past, 1, Len(past) - 1)
    ELSE <<value>> \o past

\* return self.last_onset == 2
EmitsOnsetLate(last_onset) == last_onset >= Delay
EmitsOnset(last_onset) == last_onset = Delay

\* AdvancedThreshold::with_settings
WithSettings(mean_range, max_range, adaptive_threshold, threshold_range, fixed_threshold) ==
    [past_samples |-> [i \in 1..PastInitial |-> 0],
     last_onset |-> 0,
     mean_range |-> mean_range,
     max_range |-> max_range,
     dynamic_threshold |-> adaptive_threshold,
     threshold_range |-> threshold_range,
     fixed_threshold |-> fixed_threshold]

\* AdvancedThreshold::is_above: the struct after the call and the returned bool
IsAbove(t, value) ==
    LET counted == t.last_onset + 1   \* u32; far from wrapping within MaxCalls
        above == ExceedsThreshold(t, t.past_samples, value)
        last == IF above THEN 0 ELSE counted
    IN  [thr |-> [t EXCEPT !.past_samples = PushFront(t.past_samples, value),
                           !.last_onset = last],
         out |-> EmitsOnset(last)]


(***************************************************************************)
(* Analysis buffer.  Samples, magnitudes, peak and rms are integers in     *)
(* quarter units (4 = 1.0), so that the Hann window of the modelled        *)
(* lengths is exact; square roots round down.                              *)
(***************************************************************************)
Abs(x) == IF x < 0 THEN -x ELSE x

RECURSIVE IsqrtFrom(_, _)
IsqrtFrom(x, r) == IF (r + 1) * (r + 1) > x THEN r ELSE IsqrtFrom(x, r + 1)
\* f32::sqrt
Sqrt(x) == IsqrtFrom(x, 0)

Zeros(n) == [i \in 1..n |-> 0]

\* window(length, WindowType::Hann) = 0.5 * (1 - cos(2 pi n / length)), in quarters
Window(length) ==
    CASE length = 1 -> <<0>>
      [] length = 2 -> <<0, 4>>
      [] length = 3 -> <<0, 3, 3>>
      [] length = 4 -> <<0, 2, 4, 2>>

\* Buffer::init
BufferInit(ch, settings) ==
    [f32_samples |-> [c \in 1..ch |-> Zeros(settings.fft_size)],
     f32_capacity |-> settings.fft_size,
     mono_samples |-> Zeros(settings.buffer_size),
     mono_capacity |-> settings.buffer_size,
     fft_output |-> [c \in 1..ch |-> [k \in 1..(settings.fft_size \div 2 + 1) |-> <<0, 0>>]],
     fft_window |-> Window(settings.buffer_size),
     fft_size |-> settings.fft_size,
     freq_bins |-> Zeros(settings.fft_size \div 2 + 1),
     bins_capacity |-> settings.fft_size \div 2 + 1,
     peak |-> 0,
     rms |-> 0,
     channels |-> ch]

\* data.iter().any(|i| *i != 0.0)
Sound(data) == \E i \in 1..Len(data) : data[i] # 0

\* Buffer::zeros
ZerosKeepBins(b) ==
    [b EXCEPT !.f32_samples = [c \in 1..Len(b.f32_samples) |-> Zeros(b.f32_capacity)],
              !.mono_samples = Zeros(b.mono_capacity),
              !.peak = 0,
              !.rms = 0]
BufferZeros(b) ==
    [b EXCEPT !.f32_samples = [c \in 1..Len(b.f32_samples) |-> Zeros(b.f32_capacity)],
              !.mono_samples = Zeros(b.mono_capacity),
              !.freq_bins = Zeros(b.bins_capacity),
              !.peak = 0,
              !.rms = 0]

\* Vec::extend pushing element by element: a full vector grows to twice its
\* capacity, and to 4 elements at least
RECURSIVE Grow(_, _)
Grow(capacity, len) ==
    IF len <= capacity
    THEN capacity
    ELSE Grow(Max2(Max2(2 * capacity, capacity + 1), 4), len)

\* Buffer::split_channels: channel i takes the samples with index % channels == i
SplitChannels(b, data) ==
    [b EXCEPT !.f32_samples =
        [c \in 1..Len(b.f32_samples) |->
            [i \in 1..((Len(data) + b.channels - c) \div b.channels) |->
                data[(i - 1) * b.channels + c]]],
              !.f32_capacity =
                 Grow(b.f32_capacity, (Len(data) + b.channels - 1) \div b.channels)]

\* Buffer::collapse_mono
CollapseMono(b) ==
    [b EXCEPT !.mono_samples =
        [i \in 1..b.mono_capacity |->
            SumSeq([c \in 1..Len(b.f32_samples) |->
                       IF i <= Len(b.f32_samples[c])
                       THEN b.f32_samples[c][i] \div b.channels
                       ELSE 0])]]

SumSquares(s) == SumSeq([i \in 1..Len(s) |-> s[i] * s[i]])

\* Buffer::rms: mean over the channels of the per-channel rms
BufferRms(b) ==
    SumSeq([c \in 1..Len(b.f32_samples) |->
               Sqrt(SumSquares(b.f32_samples[c]) \div Len(b.f32_samples[c]))])
        \div b.channels

\* Buffer::peak
BufferPeak(b) ==
    FoldMax([c \in 1..Len(b.f32_samples) |->
                FoldMax([i \in 1..Len(b.f32_samples[c]) |-> Abs(b.f32_samples[c][i])])])

\* apply_window_mono: zip with the window
ApplyWindowMono(samples, window) ==
    [i \in 1..Len(samples) |->
        IF i <= Len(window) THEN (samples[i] * window[i]) \div 4 ELSE samples[i]]

\* forward real FFT of 4 samples: bins 0..2 as <<re, im>>
RealFft4(x) ==
    << <<x[1] + x[2] + x[3] + x[4], 0>>,
       <<x[1] - x[3], x[4] - x[2]>>,
       <<x[1] - x[2] + x[3] - x[4], 0>> >>

\* forward real FFT of fft_size samples
RealFft(fft_size, x) ==
    IF fft_size = 4 THEN RealFft4(x) ELSE << <<x[1], 0>> >>

\* RealToComplex::process returns Err unless the input has fft_size samples
\* and the output fft_size/2 + 1 bins
FftFails(fft_size, samples, output) ==
    ~(Len(samples) = fft_size /\ Len(output) = fft_size \div 2 + 1)

\* RealToComplex::process: the output is untouched when it returns Err
FftProcessUnchecked(fft_size, samples, output) ==
    IF FftFails(fft_size, samples, output)
    THEN [k \in 1..Len(output) |-> <<SumSeq(samples), 0>>]
    ELSE RealFft(fft_size, samples)
FftProcess(fft_size, samples, output) ==
    IF FftFails(fft_size, samples, output)
    THEN output
    ELSE RealFft(fft_size, samples)

\* the channels as Buffer::fft hands them to the FFT: windowed and padded
\* with zeros up to the capacity
Padded(b) ==
    [c \in 1..Len(b.f32_samples) |->
        ApplyWindowMono(b.f32_samples[c], b.fft_window)
            \o Zeros(SaturatingSub(b.f32_capacity, Len(b.f32_samples[c])))]

\* Buffer::fft
BufferFft(b) ==
    LET padded == Padded(b)
        out == [c \in 1..Len(padded) |-> FftProcess(b.fft_size, padded[c], b.fft_output[c])]
        power == [c \in 1..Len(out) |->
                     [k \in 1..Len(out[c]) |->
                         Sqrt((out[c][k][1] * out[c][k][1] + out[c][k][2] * out[c][k][2])
                                 \div Len(padded[c]))]]
        bins == [k \in 1..Len(b.freq_bins) |->
                    SumSeq([c \in 1..Len(power) |->
                               IF k <= Len(power[c])
                               THEN power[c][k] \div Len(power)
                               ELSE 0])]
    IN  [b EXCEPT !.f32_samples = power, !.fft_output = out, !.freq_bins = bins]

\* Buffer::process_raw
ProcessRaw(b, data) ==
    IF ~Sound(data)
    THEN BufferZeros(b)
    ELSE LET split == CollapseMono(SplitChannels(b, data))
             measured == [split EXCEPT !.rms = BufferRms(split), !.peak = BufferPeak(split)]
         IN  BufferFft(measured)

\* process_raw reaches the Err arm of Buffer::fft for some channel
ProcessRawFails(b, data) ==
    /\ Sound(data)
    /\ LET split == SplitChannels(b, data)
       IN  \E c \in 1..Len(split.f32_samples) :
              FftFails(split.fft_size, Padded(split)[c], split.fft_output[c])

\* every output field of the buffer is zero
AllZero(b) ==
    /\ \A c \in 1..Len(b.f32_samples) : \A i \in 1..Len(b.f32_samples[c]) : b.f32_samples[c][i] = 0
    /\ \A i \in 1..Len(b.mono_samples) : b.mono_samples[i] = 0
    /\ \A k \in 1..Len(b.freq_bins) : b.freq_bins[k] = 0
    /\ b.peak = 0
    /\ b.rms = 0

\* configured fft_size values: one shorter than every buffer_size, one not
FftSizes == {1, 4}

Samples == {4 * i : i \in (-MaxSample)..MaxSample}

\* all sequences of length n over S
RECURSIVE SeqsOf(_, _)
SeqsOf(S, n) ==
    IF n = 0 THEN {<<>>}
    ELSE {Append(q, x) : q \in SeqsOf(S, n - 1), x \in S}

(***************************************************************************)
(* Mel filter bank and SpecFlux detector.  Spectrum magnitudes are         *)
(* integers; band sums, compressed spectra, flux weights and the           *)
(* thresholds' fixed_threshold are in thousandths.                         *)
(***************************************************************************)
\* a bank whose rising slope is taken one bin late
MelFilterBankInitLate(sample_rate, fft_size, bands, mel) ==
    LET bin_res == sample_rate \div fft_size
        Band(m) ==
            LET start == mel[m] \div bin_res
                mid == mel[m + 1] \div bin_res
                end == mel[m + 2] \div bin_res
            IN  [k \in 1..SaturatingSub(mid, start) |-> <<k, mid - start>>]
                \o [k \in 1..SaturatingSub(end, mid) |-> <<end - mid - (k - 1), end - mid>>]
    IN  [filter |-> [m \in 1..bands |-> Band(m)],
         points |-> mel,
         fft_size |-> fft_size,
         bands |-> bands,
         sample_rate |-> sample_rate]

\* MelFilterBank::init; mel is the list of band edge frequencies
\* mel_to_hertz(i * step) in Hz, bin_res = sample_rate / fft_size
MelFilterBankInit(sample_rate, fft_size, bands, mel) ==
    LET bin_res == sample_rate \div fft_size
        Band(m) ==
            LET start == mel[m] \div bin_res          \* mel[m - 1], 0-based
                mid == mel[m + 1] \div bin_res
                end == mel[m + 2] \div bin_res
            IN  [k \in 1..SaturatingSub(mid, start) |-> <<k - 1, mid - start>>]
                \o [k \in 1..SaturatingSub(end, mid) |-> <<end - mid - (k - 1), end - mid>>]
    IN  [filter |-> [m \in 1..bands |-> Band(m)],
         points |-> mel,
         fft_size |-> fft_size,
         bands |-> bands,
         sample_rate |-> sample_rate]

\* MelFilterBank::filter: out[m] = sum of freq_bins[start + k] * band[k]
MelFilter(bank, freq_bins) ==
    LET bin_res == bank.sample_rate \div bank.fft_size
    IN  [m \in 1..Len(bank.filter) |->
            LET start == bank.points[m] \div bin_res
                band == bank.filter[m]
            IN  SumSeq([k \in 1..Len(band) |->
                           (freq_bins[start + k] * band[k][1] * 1000) \div band[k][2]])]

\* ln of y / 1000, in thousandths, for y >= 1000
RECURSIVE LnMilli(_)
LnMilli(y) ==
    IF y >= 2000 THEN 693 + LnMilli(y \div 2)
    ELSE LET t == ((y - 1000) * 1000) \div (y + 1000)
         IN  2 * t + (2 * t * t * t) \div 3000000

\* (x * lambda).ln_1p() with lambda = 0.1
Compress(x) == LnMilli(1000 + x \div 10)

\* ((b - a) + (b - a).abs()) / 2.0
HalfWave(a, b) == ((b - a) + Abs(b - a)) \div 2

\* the leading entries of the mask tables
KICK_MASK == <<923, 1000, 892, 766>>
HIHAT_MASK == <<514, 378, 447, 530>>
SNARE_MASK == <<252, 402, 661, 896>>

\* flux.zip(MASK).map(|(d, &w)| d * w).sum()
Masked(flux, mask) ==
    SumSeq([m \in 1..Min2(Len(flux), Len(mask)) |-> (flux[m] * mask[m]) \div 1000])

\* iter().enumerate().max_by(|(_, a), (_, b)| a.total_cmp(b)).unwrap().0
\* (max_by returns the last of several equally maximum elements); 0-based
IndexOfMax(s) ==
    (CHOOSE i \in 1..Len(s) :
        /\ \A j \in 1..Len(s) : s[j] <= s[i]
        /\ \A j \in (i + 1)..Len(s) : s[j] < s[i]) - 1

Onset(kind, value, bin) == [kind |-> kind, value |-> value, bin |-> bin]
NoBin == -1

\* ThresholdBankSettings::default, ThresholdBank::with_settings
SpecFluxThresholdBank ==
    [drum |-> WithSettings(5, 3, 40, 8, 2000),
     hihat |-> WithSettings(3, 3, 55, 8, 5000),
     note |-> WithSettings(6, 3, 40, 8, 2000),
     full |-> WithSettings(6, 3, 80, 8, 5000)]

\* SpecFlux::with_settings
SpecFluxWithSettings(sample_rate, fft_size, bands, mel) ==
    [filter_bank |-> MelFilterBankInit(sample_rate, fft_size, bands, mel),
     old_spectrum |-> Zeros(bands),
     spectrum |-> Zeros(bands),
     threshold |-> SpecFluxThresholdBank]

\* SpecFlux::detect: the struct after the call and the onsets handed to the sinks
SpecFluxDetect(sf, freq_bins, peak, rms) ==
    LET old == sf.spectrum
        filtered == MelFilter(sf.filter_bank, freq_bins)
        cur == [m \in 1..Len(filtered) |-> Compress(filtered[m])]
        flux == [m \in 1..Min2(Len(old), Len(cur)) |-> HalfWave(old[m], cur[m])]
        weight == SumSeq(flux)
        drum_weight == Masked(flux, KICK_MASK)
        hihat_weight == Masked(flux, HIHAT_MASK)
        note_weight == Masked(flux, SNARE_MASK)
        full == IsAbove(sf.threshold.full, weight)
        index_of_max == IndexOfMax(freq_bins)
        drum == IsAbove(sf.threshold.drum, drum_weight)
        hihat == IsAbove(sf.threshold.hihat, hihat_weight)
        note == IsAbove(sf.threshold.note, note_weight)
    IN  [sf |-> [sf EXCEPT !.old_spectrum = old,
                           !.spectrum = cur,
                           !.threshold = [drum |-> drum.thr, hihat |-> hihat.thr,
                                          note |-> note.thr, full |-> full.thr]],
         onsets |-> <<Onset("Raw", hihat_weight, NoBin)>>
                    \o (IF full.out THEN <<Onset("Full", rms, NoBin)>> ELSE <<>>)
                    \o (IF drum.out THEN <<Onset("Drum", rms, NoBin)>> ELSE <<>>)
                    \o (IF hihat.out THEN <<Onset("Hihat", peak, NoBin)>> ELSE <<>>)
                    \o (IF note.out THEN <<Onset("Note", rms, index_of_max)>> ELSE <<>>)]

(***************************************************************************)
(* Dynamic threshold and HFC detector.  Weights are integers in Hz times   *)
(* magnitude; window values and normalised samples are in thousandths,     *)
(* min_intensity and delta_intensity in hundredths.                        *)
(***************************************************************************)
\* window(length, WindowType::Hann)[n] = sin^2(pi n / length), in thousandths,
\* with sin(pi t) taken as 16 t (1 - t) / (5 - 4 t (1 - t))
HannMilli(n, length) ==
    LET sin == (16000 * n * (length - n)) \div (5 * length * length - 4 * n * (length - n))
    IN  (sin * sin) \div 1000

\* s / max in thousandths
RatioMilli(x, max) ==
    IF max >= 1000000 THEN x \div (max \div 1000) ELSE (x * 1000) \div max

\* DynamicThreshold::init_config
DynamicInit(size, min_intensity, delta_intensity) ==
    [past_samples |-> <<>>,
     buffer_size |-> size,
     min_intensity |-> min_intensity,
     delta_intensity |-> delta_intensity]

\* DynamicThreshold::get_threshold: the struct after the call and the
\* threshold (min_intensity + delta_intensity * sum) * max, given as its
\* factor `coef` in units of 1/100000 and `max`; max = 0 makes it NaN
GetThreshold(dt, value) ==
    LET past == IF Len(dt.past_samples) >= dt.buffer_size
                THEN Append(Tail(dt.past_samples), value)
                ELSE Append(dt.past_samples, value)
        max == FoldMax(past)
        size == Len(past) + dt.buffer_size - 1
        length == IF dt.buffer_size = 20 THEN 39 ELSE size
        normalized == [i \in 1..Min2(Len(past), length) |->
                          LET q == RatioMilli(past[i], max)
                          IN  (((q * q) \div 1000) * HannMilli(i - 1, length)) \div 1000]
        sum == IF max = 0 THEN 0 ELSE SumSeq(normalized)
    IN  [dt |-> [dt EXCEPT !.past_samples = past],
         coef |-> dt.min_intensity * 1000 + dt.delta_intensity * sum,
         max |-> max]

\* weight >= threshold
AtLeastThreshold(weight, th) ==
    IF th.max = 0 THEN FALSE ELSE RatioMilli(weight, th.max) * 100 >= th.coef

\* ThresholdBank::default
HfcThresholdBank ==
    [drums |-> DynamicInit(30, 30, 18),
     hihat |-> DynamicInit(20, 30, 18),
     notes |-> DynamicInit(20, 20, 15),
     fullband |-> DynamicInit(20, 20, 15)]

\* Hfc::init with DetectionWeights::default (cutoffs in Hz; the click
\* weights 0.005 and 0.1 are applied as divisions by 200 and by 10)
HfcInit(sample_rate, fft_size) ==
    [threshold |-> HfcThresholdBank,
     detection_weights |-> [low_end_weight_cutoff |-> 300,
                            high_end_weight_cutoff |-> 2000,
                            mids_weight_low_cutoff |-> 200,
                            mids_weight_high_cutoff |-> 3000],
     bin_resolution |-> sample_rate \div fft_size]

\* slice.iter().enumerate().map(|(k, freq)| k as f32 * bin_resolution * freq).sum()
Weighted(slice, bin_resolution) ==
    SumSeq([k \in 1..Len(slice) |-> (k - 1) * bin_resolution * slice[k]])

\* &freq_bins[from..to], 0-based, end exclusive
Slice(bins, from, to) == SubSeq(bins, from + 1, to)

\* Hfc::detect: the struct after the call and the events handed to the sinks
HfcDetect(h, freq_bins, peak, rms) ==
    IF ~Sound(freq_bins)
    THEN [hfc |-> h, onsets |-> <<>>]
    ELSE
    LET res == h.bin_resolution
        low_cut == h.detection_weights.low_end_weight_cutoff \div res
        high_cut == h.detection_weights.high_end_weight_cutoff \div res
        mids_low == h.detection_weights.mids_weight_low_cutoff \div res
        mids_high == h.detection_weights.mids_weight_high_cutoff \div res
        weight == Weighted(freq_bins, res)
        low_end_weight == Weighted(Slice(freq_bins, 0, low_cut), res)
        high_end_weight == Weighted(Slice(freq_bins, high_cut, Len(freq_bins)), res)
        mids_weight == Weighted(Slice(freq_bins, mids_low, mids_high), res)
        index_of_max_mid == IndexOfMax(Slice(freq_bins, mids_low, mids_high)) * res
        index_of_max == IndexOfMax(freq_bins) * res
        full == GetThreshold(h.threshold.fullband, weight)
        drums_weight == (low_end_weight \div 200) * high_end_weight
        drums == GetThreshold(h.threshold.drums, drums_weight)
        notes_weight == mids_weight + high_end_weight \div 10
        notes == GetThreshold(h.threshold.notes, notes_weight)
        hihat == GetThreshold(h.threshold.hihat, high_end_weight)
    IN  [hfc |-> [h EXCEPT !.threshold = [drums |-> drums.dt, hihat |-> hihat.dt,
                                          notes |-> notes.dt, fullband |-> full.dt]],
         onsets |-> (IF AtLeastThreshold(weight, full)
                     THEN <<Onset("Full", rms, NoBin)>>
                     ELSE <<Onset("Atmosphere", rms, index_of_max % 65536)>>)
                    \o <<Onset("Raw", weight, NoBin)>>
                    \o (IF AtLeastThreshold(drums_weight, drums)
                        THEN <<Onset("Drum", rms, NoBin)>> ELSE <<>>)
                    \o (IF AtLeastThreshold(notes_weight, notes)
                        THEN <<Onset("Note", rms, index_of_max_mid % 65536)>> ELSE <<>>)
                    \o (IF AtLeastThreshold(high_end_weight, hihat)
                        THEN <<Onset("Hihat", peak, NoBin)>> ELSE <<>>)]

\* the analysed frames fed to the detectors: spectrum of 33 bins, peak, rms
SilentFrame == [freq_bins |-> Zeros(33), peak |-> 0, rms |-> 0]
ToneFrame(lo, hi, level) ==
    [freq_bins |-> [k \in 1..33 |-> IF lo < k /\ k <= hi + 1 THEN level ELSE 0],
     peak |-> level, rms |-> level \div 2]
DetFrames ==
    {SilentFrame}
    \cup {ToneFrame(b[1], b[2], level) :
            b \in {<<1, 3>>, <<5, 15>>, <<20, 32>>, <<0, 32>>}, level \in {20, 300}}

Values == {0} \cup {5 * i : i \in 1..MaxValue}

(***************************************************************************)
(* Envelopes and the bridge sink.  Strengths and envelope values are in    *)
(* thousandths, times in milliseconds, a fixed decay is its length in      *)
(* milliseconds and a dynamic decay its rate per second.                   *)
(***************************************************************************)
TickMs == 50

\* FixedDecayEnvelope::init, DynamicDecayEnvelope::init
EnvelopeInit(kind, decay, t) ==
    [kind |-> kind, decay |-> decay, trigger_time |-> t, strength |-> 0]

\* Envelope::trigger
Trigger(env, strength, t) ==
    [env EXCEPT !.trigger_time = t, !.strength = strength]

\* Envelope::get_value: the strength less the decayed part, 0 if that is
\* not positive (also when the length is zero and the quotient not a number)
GetValueUnclamped(env, t) ==
    LET elapsed == t - env.trigger_time
    IN  IF env.kind = "fixed"
        THEN IF env.decay = 0
             THEN 0
             ELSE env.strength - (env.strength * elapsed) \div env.decay
        ELSE env.strength - (env.strength * elapsed * env.decay) \div 1000
GetValue(env, t) ==
    LET elapsed == t - env.trigger_time
        value == IF env.kind = "fixed"
                 THEN IF env.decay = 0
                      THEN 0
                      ELSE env.strength - (env.strength * elapsed) \div env.decay
                 ELSE env.strength - (env.strength * elapsed * env.decay) \div 1000
    IN  IF value > 0 THEN value ELSE 0

\* LightSettings::default
DefaultLightSettings ==
    [drum_decay_rate |-> 8, note_decay |-> 100, hihat_decay |-> 80,
     fullband_decay |-> 250, color_envelope |-> FALSE]

\* "HueStream", then api version, sequence id, colour space and reserved
HuePrefix == <<72, 117, 101, 83, 116, 114, 101, 97, 109, 2, 0, 0, 0, 0, 0, 0>>

\* State::with_settings
HueStateWithSettings(area, settings, t) ==
    [drum |-> EnvelopeInit("dynamic", settings.drum_decay_rate, t),
     hihat |-> EnvelopeInit("fixed", settings.hihat_decay, t),
     note |-> EnvelopeInit("fixed", settings.note_decay, t),
     fullband |-> EnvelopeInit("fixed", settings.fullband_decay, t),
     prefix |-> HuePrefix \o area.id,
     channels |-> area.channels,
     color_envelope |-> settings.color_envelope]

\* the envelope an onset kind is matched to in process_onset, if any
EnvelopeOf(kind) ==
    CASE kind = "Full" -> "fullband"
      [] kind = "Kick" -> "drum"
      [] kind = "Hihat" -> "hihat"
      [] kind = "Snare" -> "note"
      [] OTHER -> "none"

\* if volume > envelope.get_value() { envelope.trigger(volume) }
TriggerIfAtLeast(env, volume, t) ==
    IF volume >= GetValue(env, t) THEN Trigger(env, volume, t) ELSE env
TriggerIfLouder(env, volume, t) ==
    IF volume > GetValue(env, t) THEN Trigger(env, volume, t) ELSE env

\* impl LightService for BridgeConnection, process_onset
HueProcessOnset(state, event, t) ==
    CASE event.kind = "Full" ->
            [state EXCEPT !.fullband = TriggerIfLouder(@, event.strength, t)]
      [] event.kind = "Kick" ->
            [state EXCEPT !.drum = TriggerIfLouder(@, event.strength, t)]
      [] event.kind = "Hihat" ->
            [state EXCEPT !.hihat = TriggerIfLouder(@, event.strength, t)]
      [] event.kind = "Snare" ->
            [state EXCEPT !.note = TriggerIfLouder(@, event.strength, t)]
      [] OTHER -> state

\* (value * u16::MAX as f32) as u16: the cast truncates and saturates
ToU16(value) ==
    LET scaled == (value * 65535) \div 1000
    IN  IF scaled < 0 THEN 0 ELSE IF scaled > 65535 THEN 65535 ELSE scaled

\* u16::saturating_add
WrappingAdd(a, b) == (a + b) % 65536
SaturatingAdd(a, b) == IF a + b > 65535 THEN 65535 ELSE a + b

\* BufMut::put_u16: big endian
PutU16(v) == <<v \div 256, v % 256>>

RECURSIVE Concat(_)
Concat(seqs) == IF seqs = <<>> THEN <<>> ELSE Head(seqs) \o Concat(Tail(seqs))

\* impl Pollable for State, poll, with color_envelope off
HuePoll(state, t) ==
    LET r == ToU16(GetValue(state.drum, t))
        white == ToU16(GetValue(state.hihat, t)) \div 8
        b == ToU16(GetValue(state.note, t)) \div 2
    IN  state.prefix \o
        Concat([i \in 1..Len(state.channels) |->
                   <<state.channels[i]>> \o PutU16(SaturatingAdd(r, white))
                       \o PutU16(white) \o PutU16(SaturatingAdd(b, white))])

OnsetKinds == {"Full", "Atmosphere", "Note", "Kick", "Snare", "Hihat", "Raw"}

\* onset strengths: rms and peak of samples in [-1, 1]
Strengths == {0} \cup {(1000 * i) \div MaxStrength : i \in 1..MaxStrength}

NoEvent == [kind |-> "none", strength |-> 0]

\* entertainment areas: an id and up to MaxHueChannels channel ids
Areas == {[id |-> <<97>>, channels |-> [i \in 1..n |-> i - 1]] :
             n \in 0..MaxHueChannels}

(***************************************************************************)
(* LED-strip sinks.  A pixel is its list of bytes; envelope values and     *)
(* brightness are in thousandths, LED positions in thousandths of a LED.   *)
(***************************************************************************)
Rev(s) == [i \in 1..Len(s) |-> s[Len(s) + 1 - i]]

\* Iterator::skip
Skip(s, n) == SubSeq(s, Min2(n, Len(s)) + 1, Len(s))

\* VecDeque::pop_front: nothing to remove from an empty deque
PopFront(s) == IF s = <<>> THEN s ELSE Tail(s)

\* SpectrumSettings::default: centred, 2 s timeout
DefaultSpectrumTimeout == 2

\* SpectrumState::init; sample_buffer is held by its length
SpectrumStateInit(led_count, samples_per_led, center, timeout, t) ==
    [sample_buffer |-> 0,
     colors |-> [i \in 1..led_count |-> <<0, 0, 0>>],
     prefix |-> <<2, timeout>>,
     led_count |-> led_count,
     center |-> center,
     samples_per_led |-> samples_per_led,
     envelope |-> EnvelopeInit("dynamic", 8, t)]

\* the ring after the sub-windows whose colours are rgbs:
\* colors.pop_front(); colors.push_back(rgb) for each
RECURSIVE PopPush(_, _)
PopPush(colors, rgbs) ==
    IF rgbs = <<>> THEN colors
    ELSE PopPush(Append(PopFront(colors), Head(rgbs)), Tail(rgbs))

\* the number of sub-windows visualize_spectrum completes for count samples
SubWindows(state, count) == (state.sample_buffer + count) \div state.samples_per_led

\* a sink that never removes the oldest pixel
VisualizeSpectrumNoPop(state, count, rgbs) ==
    [state EXCEPT !.sample_buffer = (@ + count) - Len(rgbs) * state.samples_per_led,
                  !.colors = @ \o rgbs]

\* SpectrumState::visualize_spectrum on count samples; rgbs are the colours
\* of the completed sub-windows, which the filters and the envelope decide
VisualizeSpectrum(state, count, rgbs) ==
    [state EXCEPT !.sample_buffer = (@ + count) - Len(rgbs) * state.samples_per_led,
                  !.colors = PopPush(@, rgbs)]

\* the samples each round of visualize_spectrum runs through the filters and
\* sums the band energies of, as <<first, last>> arrival numbers: the slice
\* sample_buffer.as_slices().0 of the contiguous queue is the whole queue,
\* from which the rounds before have drained samples_per_led each
FilteredSlices(state, count, before) ==
    [round \in 1..SubWindows(state, count) |->
        <<before - state.sample_buffer + (round - 1) * state.samples_per_led,
          before + count - 1>>]

\* impl LightService for LEDStripSpectrum, process_onset
SpectrumProcessOnset(state, event, t) ==
    IF event.kind = "Full"
    THEN [state EXCEPT !.envelope = Trigger(@, event.strength, t)]
    ELSE state

\* impl Pollable for SpectrumState, poll
SpectrumPoll(state) ==
    LET rev == Rev(state.colors)
        n == state.led_count
    IN  state.prefix \o
        Concat(IF ~state.center
               THEN rev
               ELSE Rev(Take(rev, (n \div 2) + (n % 2)))
                    \o Take(Skip(rev, n % 2), n \div 2))

\* OnsetSettings::default: 2 s timeout; connect_with_settings passes 1.0
DefaultOnsetTimeout == 2
FullBrightness == 1000

\* OnsetState::init
OnsetStateInit(led_count, rgbw, brightness, timeout, t) ==
    [led_count |-> led_count,
     rgbw |-> rgbw,
     drum_envelope |-> EnvelopeInit("dynamic", 2, t),
     note_envelope |-> EnvelopeInit("dynamic", 4, t),
     hihat_envelope |-> EnvelopeInit("fixed", 200, t),
     prefix |-> IF rgbw THEN <<3, timeout>> ELSE <<2, timeout>>,
     brightness |-> brightness]

\* impl LightService for LEDStripOnset, process_onset
OnsetProcessOnset(state, event, t) ==
    CASE event.kind = "Drum" ->
            [state EXCEPT !.drum_envelope = Trigger(@, event.strength, t)]
      [] event.kind = "Hihat" ->
            [state EXCEPT !.hihat_envelope = Trigger(@, event.strength, t)]
      [] event.kind = "Note" ->
            [state EXCEPT !.note_envelope = Trigger(@, event.strength, t)]
      [] OTHER -> state

\* (x.clamp(0.0, 1.0) * u8::MAX as f32 * brightness).round() as u8
Level(x, brightness) ==
    LET clamped == IF x < 0 THEN 0 ELSE IF x > 1000 THEN 1000 ELSE x
        rounded == (clamped * 255 * (brightness \div 10) + 50000) \div 100000
    IN  IF rounded > 255 THEN 255 ELSE rounded

\* u8::saturating_add
SaturatingAddU8(a, b) == IF a + b > 255 THEN 255 ELSE a + b

\* the colors of poll: led_count / 2 pixels, from the centre outwards
OnsetColors(state, t) ==
    LET red == (GetValue(state.drum_envelope, t) * state.led_count) \div 2
        blue == (GetValue(state.note_envelope, t) * state.led_count) \div 2
        white == (GetValue(state.hihat_envelope, t) * state.led_count) \div 5
        half == state.led_count \div 2
    IN  [j \in 1..half |->
            LET i == j - 1
                r == Level(red - 1000 * i, state.brightness)
                b == Level(blue - 1000 * i, state.brightness)
                w == Level(white - 1000 * (half - i), state.brightness)
            IN  IF state.rgbw
                THEN <<r, 0, b, w>>
                ELSE <<SaturatingAddU8(r, w), w, SaturatingAddU8(b, w)>>]

\* impl Pollable for OnsetState, poll
OnsetPoll(state, t) ==
    LET colors == OnsetColors(state, t)
    IN  state.prefix \o Concat(Rev(colors) \o colors)

\* the onsets of this revision of the sinks
WledOnsetKinds == {"Full", "Drum", "Hihat", "Note", "Raw"}

(***************************************************************************)
(* File serializer.  Times are in milliseconds.                            *)
(***************************************************************************)
\* the keys of data
ContainerKeys == {"Full", "Atmosphere", "Note", "Drum", "Hihat"}

\* OnsetContainer::init; time_interval is
\* ((hop_size as f64 / sample_rate as f64) * 1000.0) as u32
OnsetContainerInit(sample_rate, hop) ==
    [time |-> 0,
     time_interval |-> (hop * 1000) \div sample_rate,
     data |-> [key \in ContainerKeys |-> <<>>],
     raw |-> <<>>]

\* a container that stamps an onset with the time of the next frame
ContainerProcessOnsetAhead(container, event) ==
    IF event.kind = "Raw"
    THEN [container EXCEPT !.raw = Append(@, event.strength)]
    ELSE [container EXCEPT !.data[event.kind] =
              Append(@, <<container.time + container.time_interval, event>>)]

\* impl LightService for OnsetContainer, process_onset
ContainerProcessOnset(container, event) ==
    IF event.kind = "Raw"
    THEN [container EXCEPT !.raw = Append(@, event.strength)]
    ELSE [container EXCEPT !.data[event.kind] = Append(@, <<container.time, event>>)]

\* impl LightService for OnsetContainer, update
ContainerUpdate(container) ==
    [container EXCEPT !.time = @ + container.time_interval]

\* the onsets a detector hands to the serializer
ContainerEvents ==
    [kind : ContainerKeys \cup {"Raw"}, strength : {250, 1000}]

\* sample rates and hop sizes of the configuration
ContainerRates == {8000, 44100}
ContainerHops == {100, 480}

(***************************************************************************)
(* Capture pipeline on a silent stream.  The queue of the callback is held *)
(* by its length, since every sample is zero; process_raw on an all-zero   *)
(* window leaves an all-zero spectrum, peak and rms (SilentFrame).         *)
(***************************************************************************)
\* the state create_monitor_stream hands to the callback, for 10 000 stereo
\* samples at 48 kHz, buffer_size 1024 and hop_size 480
PipelineInit(detector) ==
    [detector |-> detector,
     left |-> 10000 * 2,
     buffer |-> 0,
     buffer_size |-> 1024 * 2,
     hop_size |-> 480 * 2,
     frames |-> 0,
     spec_flux |-> SpecFluxWithSettings(6400, 64, 3, <<0, 375, 952, 1838, 3200>>),
     hfc |-> HfcInit(6400, 64),
     container |-> OnsetContainerInit(48000, 480),
     onsets |-> <<>>]

\* lightservices.process_onsets(&onsets) on the serializer
RECURSIVE ContainerProcessOnsets(_, _)
ContainerProcessOnsets(container, onsets) ==
    IF onsets = <<>> THEN container
    ELSE ContainerProcessOnsets(
             ContainerProcessOnset(container,
                                   [kind |-> Head(onsets).kind,
                                    strength |-> Head(onsets).value]),
             Tail(onsets))

\* one round of the callback's loop: process_raw, detect, process_onsets,
\* update, drain
PipelineFrame(p) ==
    LET found == IF p.detector = "SpecFlux"
                 THEN SpecFluxDetect(p.spec_flux, SilentFrame.freq_bins,
                                     SilentFrame.peak, SilentFrame.rms)
                 ELSE HfcDetect(p.hfc, SilentFrame.freq_bins,
                                SilentFrame.peak, SilentFrame.rms)
        IsOnset(o) == o.kind # "Raw"
    IN  [p EXCEPT !.spec_flux = IF p.detector = "SpecFlux" THEN found.sf ELSE @,
                  !.hfc = IF p.detector = "SpecFlux" THEN @ ELSE found.hfc,
                  !.container = ContainerUpdate(
                                    ContainerProcessOnsets(@, found.onsets)),
                  !.onsets = @ \o SelectSeq(found.onsets, IsOnset),
                  !.frames = @ + 1,
                  !.buffer = @ - p.hop_size]

\* (0..n).for_each(...)
RECURSIVE PipelineLoop(_, _)
PipelineLoop(p, n) == IF n = 0 THEN p ELSE PipelineLoop(PipelineFrame(p), n - 1)

\* the callback on a chunk of count zero samples
PipelineCallback(p, count) ==
    LET extended == [p EXCEPT !.buffer = @ + count, !.left = @ - count]
    IN  PipelineLoop(extended,
                     NumFrames(extended.buffer, p.hop_size, p.buffer_size))

(***************************************************************************)
(* Processing nodes.  A node follows another node's broadcast channel with *)
(* a spawned forwarding task.  Items are numbered in the order the         *)
(* followed node sends them; a message is the sequence of its items, and   *)
(* an output is recorded as the items it was computed from.  Fewer than    *)
(* CHANNEL_SIZE messages are ever queued, so no receiver lags.             *)
(***************************************************************************)
NodeKinds ==
    {"NodeImpl", "PrintNode", "Aggregate", "Window", "Retimer", "FFT",
     "MelFilterBankNode"}

\* the kinds whose task races its loop against stop_rx in a select!
SelectKinds == {"Aggregate", "Window", "Retimer", "FFT", "MelFilterBankNode"}

\* the kinds whose follow and unfollow call stop_task and await the handle;
\* the others abort the handle
StopKinds == {"Aggregate", "Window", "Retimer", "FFT"}

\* the kinds that receive Arc<[f32]> messages
ArrayKinds == {"Window", "FFT", "MelFilterBankNode"}

\* Aggregate::init, Window::init, FFT::init, ...: no receiver, no handle
NodeInit(kind, size, hop) ==
    [kind |-> kind, size |-> size, hop_size |-> hop, handle |-> 0,
     stop_signal |-> 0, buffer |-> <<>>, caller |-> "idle", last |-> "init"]

\* the task follow spawns, around a fresh receiver and the saved buffer;
\* a Retimer without a buffered value first waits for one
NewTask(kind, saved) ==
    [pc |-> IF kind = "Retimer"
            THEN (IF saved = <<>> THEN "first" ELSE "tick")
            ELSE "recv",
     queue |-> <<>>, buffer |-> saved, pending |-> <<>>, stop |-> "armed",
     closed_logs |-> 0]

Alive(t) == t.pc \notin {"done", "cancelled"}

\* receiver.recv(): Ok with the oldest message, Closed once the queue is
\* empty and every sender is dropped, pending otherwise
Recv(t) ==
    IF t.queue # <<>> THEN "ok" ELSE IF upstream.closed THEN "closed" ELSE "pending"

\* what one poll of a task does: the task after it, the outputs it sent and
\* the items it received
Res(t, sent, got) == [task |-> t, sent |-> sent, got |-> got]

\* sender.send(data) and the retry loop around it: send fails while the node
\* has no subscriber, and the task then yields and tries again
SendFrame(t, frame, drained, then) ==
    IF subscribers
    THEN Res([t EXCEPT !.buffer = drained, !.pending = <<>>, !.pc = then],
             <<frame>>, <<>>)
    ELSE Res([t EXCEPT !.pending = frame, !.pc = "send"], <<>>, <<>>)

\* NodeImpl::follow and PrintNode::follow, the spawned loop
PollForward(t) ==
    CASE Recv(t) = "ok" ->
            Res([t EXCEPT !.queue = Tail(@)],
                IF subscribers THEN <<Head(t.queue)>> ELSE <<>>, Head(t.queue))
      [] Recv(t) = "closed" -> Res([t EXCEPT !.pc = "done"], <<>>, <<>>)
      [] OTHER -> Res(t, <<>>, <<>>)

\* Aggregate::follow, the spawned loop
PollAggregate(t) ==
    CASE t.pc = "send" ->
            SendFrame(t, t.pending, Skip(t.buffer, node.hop_size), "recv")
      [] Recv(t) = "ok" ->
            LET u == [t EXCEPT !.queue = Tail(@), !.buffer = @ \o Head(t.queue)]
            IN  IF Len(u.buffer) >= node.size
                THEN [SendFrame(u, Take(u.buffer, node.size),
                                Skip(u.buffer, node.hop_size), "recv")
                        EXCEPT !.got = Head(t.queue)]
                ELSE Res(u, <<>>, Head(t.queue))
      [] Recv(t) = "closed" -> Res([t EXCEPT !.pc = "done"], <<>>, <<>>)
      [] OTHER -> Res(t, <<>>, <<>>)

\* Window::follow, the head of `while buffer.len() > size`
WindowLoop(t) ==
    IF Len(t.buffer) > node.size
    THEN SendFrame(t, Take(t.buffer, node.size), Skip(t.buffer, node.hop_size),
                   "yield")
    ELSE Res([t EXCEPT !.pc = "recv"], <<>>, <<>>)

\* Window::follow, the spawned loop
PollWindow(t) ==
    CASE t.pc = "send" ->
            SendFrame(t, t.pending, Skip(t.buffer, node.hop_size), "yield")
      [] t.pc = "yield" -> WindowLoop(t)
      [] Recv(t) = "ok" ->
            [WindowLoop([t EXCEPT !.queue = Tail(@), !.buffer = @ \o Head(t.queue)])
                EXCEPT !.got = Head(t.queue)]
      [] Recv(t) = "closed" -> Res([t EXCEPT !.pc = "done"], <<>>, <<>>)
      [] OTHER -> Res(t, <<>>, <<>>)

\* Retimer::follow, the spawned task: the first receive, then tick, send and
\* wait for the next value
PollRetimer(t) ==
    CASE t.pc = "send" -> SendFrame(t, t.pending, <<>>, "wait")
      [] t.pc = "tick" ->
            SendFrame([t EXCEPT !.buffer = <<>>], t.buffer[1], <<>>, "wait")
      [] Recv(t) = "ok" ->
            Res([t EXCEPT !.queue = Tail(@), !.buffer = <<Head(t.queue)>>,
                          !.pc = "tick"], <<>>, Head(t.queue))
      [] Recv(t) = "closed" -> Res([t EXCEPT !.pc = "done"], <<>>, <<>>)
      [] OTHER -> Res(t, <<>>, <<>>)

\* FFT::follow, the spawned loop: on Closed it logs "Sender closed" and
\* receives again (closed_logs is the parity of the number of these logs)
PollFFT(t) ==
    CASE t.pc = "send" -> SendFrame(t, t.pending, t.buffer, "recv")
      [] Recv(t) = "ok" ->
            LET u == [t EXCEPT !.queue = Tail(@)]
            IN  IF Len(Head(t.queue)) # node.size
                THEN Res(u, <<>>, Head(t.queue))
                ELSE [SendFrame(u, Head(t.queue), u.buffer, "recv")
                        EXCEPT !.got = Head(t.queue)]
      [] Recv(t) = "closed" ->
            Res([t EXCEPT !.closed_logs = 1 - @], <<>>, <<>>)
      [] OTHER -> Res(t, <<>>, <<>>)

\* MelFilterBankNode::follow, the spawned loop
PollMel(t) ==
    CASE t.pc = "send" -> SendFrame(t, t.pending, t.buffer, "recv")
      [] Recv(t) = "ok" ->
            LET u == [t EXCEPT !.queue = Tail(@)]
            IN  IF Len(Head(t.queue)) # node.size
                THEN Res(u, <<>>, Head(t.queue))
                ELSE [SendFrame(u, Head(t.queue), u.buffer, "recv")
                        EXCEPT !.got = Head(t.queue)]
      [] Recv(t) = "closed" -> Res([t EXCEPT !.pc = "done"], <<>>, <<>>)
      [] OTHER -> Res(t, <<>>, <<>>)

Poll(t) ==
    CASE node.kind \in {"NodeImpl", "PrintNode"} -> PollForward(t)
      [] node.kind = "Aggregate" -> PollAggregate(t)
      [] node.kind = "Window" -> PollWindow(t)
      [] node.kind = "Retimer" -> PollRetimer(t)
      [] node.kind = "FFT" -> PollFFT(t)
      [] OTHER -> PollMel(t)

\* select! { _ = stop_rx => return, _ = loop => .. }: once the stop signal is
\* sent the poll ends the task, before or after the loop ran up to its next
\* await; the first receive of a Retimer is outside the select!
Polls(t) ==
    IF node.kind \in SelectKinds /\ t.stop = "sent" /\ t.pc # "first"
    THEN {Res([t EXCEPT !.pc = "done"], <<>>, <<>>),
          [Poll(t) EXCEPT !.task.pc = "done"]}
    ELSE {Poll(t)}

\* handle.abort(): the task is cancelled and never polled again
AbortKeep(ts, h) == ts
Abort(ts, h) ==
    IF h = 0 \/ ~Alive(ts[h]) THEN ts ELSE [ts EXCEPT ![h].pc = "cancelled"]

(***************************************************************************)
(* File benchmark.  The buffer is held as its length in interleaved        *)
(* samples.  usize arithmetic is scaled to 16 bits; a build with overflow  *)
(* checks panics where the other wraps.                                    *)
(***************************************************************************)
\* usize::MAX + 1, scaled
UsizeModulus == 65536

\* (buffer.len() + hop_size - buffer_size) / hop_size, in usize
NumFramesUnchecked(len, hop, size) == ((len + hop - size) % UsizeModulus) \div hop

\* the subtraction of the frame count underflows
Underflows(len, hop, size) == len + hop < size

\* process_file, after decoding `length` interleaved samples
ProcessFileInit(build, chans, size, hop, length) ==
    [build |-> build, buffer_size |-> size * chans, hop_size |-> hop * chans,
     length |-> length, left |-> length, buffer |-> 0, frames |-> 0,
     panicked |-> "no"]

\* (0..n).for_each: &buffer[0..buffer_size] panics on a shorter buffer,
\* buffer.drain(0..hop_size) removes the hop
RECURSIVE FileLoop(_, _)
FileLoop(f, n) ==
    IF n = 0 THEN f
    ELSE IF f.buffer < f.buffer_size THEN [f EXCEPT !.panicked = "slice"]
    ELSE FileLoop([f EXCEPT !.frames = @ + 1, !.buffer = @ - f.hop_size], n - 1)

\* one round of `for data in samples.chunks(buffer_size)`
ProcessChunk(f) ==
    LET count == Min2(f.buffer_size, f.left)
        g == [f EXCEPT !.buffer = @ + count, !.left = @ - count]
    IN  IF Underflows(g.buffer, g.hop_size, g.buffer_size) /\ g.build = "debug"
        THEN [g EXCEPT !.panicked = "overflow"]
        ELSE FileLoop(g, NumFramesUnchecked(g.buffer, g.hop_size, g.buffer_size))

(***************************************************************************)
(* The constructed state of each subsystem; a specification leaves the     *)
(* subsystems it does not exercise in this state.                          *)
(***************************************************************************)
IdleAsm ==
    /\ channels = 1 /\ buffer_size = 1 /\ hop_size = 1
    /\ buffer = <<>> /\ received = 0 /\ chunks = {} /\ frames = <<>>

IdleThr ==
    /\ threshold = WithSettings(6, 3, 80, 8, 5)
    /\ inputs = <<>>
    /\ emitted = <<>>

IdleBuf ==
    /\ detection_buffer = BufferInit(1, [buffer_size |-> 1, fft_size |-> 4])
    /\ last_data = <<>>
    /\ dirty = FALSE
    /\ fft_error = FALSE

IdleDet ==
    /\ spec_flux = SpecFluxWithSettings(6400, 64, 3, <<0, 375, 952, 1838, 3200>>)
    /\ sf_onsets = <<>>
    /\ hfc = HfcInit(6400, 64)
    /\ hfc_onsets = <<>>
    /\ det_frame = SilentFrame
    /\ det_count = 0

IdlePoll ==
    /\ poll_task = "start" /\ lock = "free" /\ audio = "idle"
    /\ channel = 0 /\ rx_alive = TRUE
    /\ drop_pc = "live" /\ send_task = "none"
    /\ drop_ctx = "outside" /\ workers = 1
    /\ stream = "open" /\ writes = 0
    /\ write_after_drop = FALSE /\ write_after_close = FALSE

IdleSink ==
    /\ lightservices = <<>>
    /\ calls = <<>>
    /\ disp_frame = 0

IdleHue ==
    /\ now = 0
    /\ hue_state = HueStateWithSettings([id |-> <<97>>, channels |-> <<>>],
                                        DefaultLightSettings, 0)
    /\ hue_event = NoEvent
    /\ hue_datagram = <<>>

IdleMel ==
    /\ mel_bank = MelFilterBankInit(1, 1, 0, <<0, 0>>)
    /\ mel_spectrum = <<>>
    /\ mel_out = [panicked |-> FALSE, out |-> <<>>]

IdleWled ==
    /\ wled_now = 0
    /\ spectrum_state = SpectrumStateInit(1, 1, TRUE, DefaultSpectrumTimeout, 0)
    /\ spectrum_datagram = <<>>
    /\ spectrum_received = 0
    /\ spectrum_blocks = <<>>
    /\ onset_state = OnsetStateInit(1, FALSE, FullBrightness, DefaultOnsetTimeout, 0)
    /\ onset_datagram = <<>>

IdleSer ==
    /\ onset_container = OnsetContainerInit(48000, 480)
    /\ ser_calls = <<>>
    /\ ser_updates = 0

IdlePipe ==
    pipeline = [PipelineInit("SpecFlux") EXCEPT !.left = 0]

IdleNode ==
    /\ node = NodeInit("NodeImpl", 1, 1)
    /\ node_tasks = <<>>
    /\ upstream = [sent |-> 0, closed |-> FALSE]
    /\ subscribers = FALSE
    /\ node_sent = <<>>
    /\ node_received = <<>>

IdleFile ==
    file = ProcessFileInit("debug", 1, 1, 1, 0)

IdleStart ==
    /\ config = [mode |-> "config", serialize_onsets |-> FALSE,
                 console_output |-> FALSE, wled |-> <<>>, hue |-> <<>>]
    /\ startup = "configured"
    /\ started = <<>>

(***************************************************************************)
(* Specification of the frame assembler                                    *)
(***************************************************************************)
InitAsm ==
    /\ IdleThr /\ IdleBuf /\ IdleDet /\ IdlePoll /\ IdleSink /\ IdleStart
    /\ IdleFile
    /\ IdleNode
    /\ IdlePipe
    /\ IdleSer
    /\ IdleWled
    /\ IdleMel
    /\ IdleHue
    /\ channels \in 1..MaxChannels
    /\ \E b \in 1..MaxBuffer : \E h \in 1..b :
          /\ buffer_size = b * channels
          /\ hop_size = h * channels
    /\ buffer = <<>>
    /\ received = 0
    /\ chunks = {}
    /\ frames = <<>>

\* the input-stream data callback
DataCallback(k) ==
    /\ received + k * channels <= MaxTotal * channels
    /\ LET extended == buffer \o NextData(k)
           n == NumFrames(Len(extended), hop_size, buffer_size)
           out == FrameLoop(extended, n, hop_size, buffer_size)
       IN  /\ buffer' = out[1]
           /\ frames' = frames \o out[2]
    /\ received' = received + k * channels
    /\ chunks' = chunks \cup {k}
    /\ UNCHANGED <<channels, buffer_size, hop_size>>
    /\ UNCHANGED <<thrVars, bufVars, detVars, pollVars, sinkVars, startVars,
                   hueVars, melVars, wledVars, serVars, pipeVars, nodeVars,
                   fileVars>>

NextAsm == \E k \in 0..MaxChunk : DataCallback(k)

SpecAsm == InitAsm /\ [][NextAsm]_vars

(***************************************************************************)
(* Specification of the advanced threshold                                 *)
(***************************************************************************)
InitThr ==
    /\ IdleAsm /\ IdleBuf /\ IdleDet /\ IdlePoll /\ IdleSink /\ IdleStart
    /\ IdleFile
    /\ IdleNode
    /\ IdlePipe
    /\ IdleSer
    /\ IdleWled
    /\ IdleMel
    /\ IdleHue
    /\ \E mr \in {2, 6}, xr \in {2, 3}, tr \in {2, 8}, dyn \in {0, 80}, fixed \in {1, 5} :
          threshold = WithSettings(mr, xr, dyn, tr, fixed)
    /\ inputs = <<>>
    /\ emitted = <<>>

\* one call of is_above
CallIsAbove(value) ==
    /\ Len(inputs) < MaxCalls
    /\ LET r == IsAbove(threshold, value)
       IN  /\ threshold' = r.thr
           /\ emitted' = Append(emitted, r.out)
    /\ inputs' = Append(inputs, value)
    /\ UNCHANGED <<asmVars, bufVars, detVars, pollVars, sinkVars, startVars,
                   hueVars, melVars, wledVars, serVars, pipeVars, nodeVars,
                   fileVars>>

NextThr == \E value \in Values : CallIsAbove(value)

SpecThr == InitThr /\ [][NextThr]_vars

(***************************************************************************)
(* Specification of the advanced threshold on the flux values 0 and 10     *)
(***************************************************************************)
\* the synthetic flux sequence
Scenario == <<0, 0, 10, 10, 10, 0, 0, 10, 0, 0, 0>>

\* AdvancedSettings of the scenario: mean_range, max_range, adaptive_threshold,
\* threshold_range, fixed_threshold
InitScenario ==
    /\ IdleAsm /\ IdleBuf /\ IdleDet /\ IdlePoll /\ IdleSink /\ IdleStart
    /\ IdleFile
    /\ IdleNode
    /\ IdlePipe
    /\ IdleSer /\ IdleWled /\ IdleMel /\ IdleHue
    /\ threshold = WithSettings(2, 2, 0, 2, 1)
    /\ inputs = <<>>
    /\ emitted = <<>>

\* one call of is_above on a flux value
FeedFlux(value) ==
    /\ Len(inputs) < Len(Scenario)
    /\ LET r == IsAbove(threshold, value)
       IN  /\ threshold' = r.thr
           /\ emitted' = Append(emitted, r.out)
    /\ inputs' = Append(inputs, value)
    /\ UNCHANGED <<asmVars, bufVars, detVars, pollVars, sinkVars, startVars,
                   hueVars, melVars, wledVars, serVars, pipeVars, nodeVars,
                   fileVars>>

NextScenario == \E value \in {0, 10} : FeedFlux(value)

SpecScenario == InitScenario /\ [][NextScenario]_vars

(***************************************************************************)
(* Specification of the analysis buffer                                    *)
(***************************************************************************)
InitBuf ==
    /\ IdleAsm /\ IdleThr /\ IdleDet /\ IdlePoll /\ IdleSink /\ IdleStart
    /\ IdleFile
    /\ IdleNode
    /\ IdlePipe
    /\ IdleSer
    /\ IdleWled
    /\ IdleMel
    /\ IdleHue
    /\ \E ch \in 1..MaxChannels, size \in 2..MaxBufferSize, fft \in FftSizes :
          detection_buffer = BufferInit(ch, [buffer_size |-> size, fft_size |-> fft])
    /\ last_data = <<>>
    /\ dirty = FALSE
    /\ fft_error = FALSE

\* one call of process_raw on a frame of buffer_size * channels samples
CallProcessRaw(data) ==
    /\ detection_buffer' = ProcessRaw(detection_buffer, data)
    /\ last_data' = data
    /\ dirty' = ~AllZero(detection_buffer)
    /\ fft_error' = ProcessRawFails(detection_buffer, data)
    /\ UNCHANGED <<asmVars, thrVars, detVars, pollVars, sinkVars, startVars,
                   hueVars, melVars, wledVars, serVars, pipeVars, nodeVars,
                   fileVars>>

NextBuf ==
    \E data \in SeqsOf(Samples, detection_buffer.mono_capacity * detection_buffer.channels) :
        CallProcessRaw(data)

SpecBuf == InitBuf /\ [][NextBuf]_vars

(***************************************************************************)
(* Specification of the onset detectors                                    *)
(***************************************************************************)
InitDet ==
    /\ IdleAsm /\ IdleThr /\ IdleBuf /\ IdlePoll /\ IdleSink /\ IdleStart
    /\ IdleFile
    /\ IdleNode
    /\ IdlePipe
    /\ IdleSer
    /\ IdleWled
    /\ IdleMel
    /\ IdleHue
    /\ IdleDet

\* the detection of one analysed frame
Detect(frame) ==
    /\ det_count < MaxFrames
    /\ LET r == SpecFluxDetect(spec_flux, frame.freq_bins, frame.peak, frame.rms)
       IN  /\ spec_flux' = r.sf
           /\ sf_onsets' = r.onsets
    /\ LET r == HfcDetect(hfc, frame.freq_bins, frame.peak, frame.rms)
       IN  /\ hfc' = r.hfc
           /\ hfc_onsets' = r.onsets
    /\ det_frame' = frame
    /\ det_count' = det_count + 1
    /\ UNCHANGED <<asmVars, thrVars, bufVars, pollVars, sinkVars, startVars,
                   hueVars, melVars, wledVars, serVars, pipeVars, nodeVars,
                   fileVars>>

NextDet == \E frame \in DetFrames : Detect(frame)

SpecDet == InitDet /\ [][NextDet]_vars

(***************************************************************************)
(* Polling helper.  The sink state sits behind a mutex shared by the audio *)
(* thread and the background poller; Drop signals the poller through a     *)
(* channel.  Steps common to both helpers come first.                      *)
(***************************************************************************)
TaskEnded == poll_task \in {"finished", "panicked"}

\* The audio thread enters a call that needs the sink state.
AudioCall ==
    /\ audio = "idle"
    /\ audio' = "waiting"
    /\ UNCHANGED <<poll_task, lock, channel, rx_alive, drop_pc, send_task,
                   drop_ctx, workers, stream, write_after_drop,
                   write_after_close,
                   writes>>
    /\ UNCHANGED <<asmVars, thrVars, bufVars, detVars, sinkVars, startVars,
                   hueVars, melVars, wledVars, serVars, pipeVars, nodeVars,
                   fileVars>>

\* state.lock().unwrap(): blocks while the lock is held, panics if poisoned.
AudioAcquire ==
    /\ audio = "waiting"
    /\ lock \in {"free", "poisoned"}
    /\ IF lock = "free"
         THEN audio' = "holding" /\ lock' = "audio"
         ELSE audio' = "panicked" /\ lock' = lock
    /\ UNCHANGED <<poll_task, channel, rx_alive, drop_pc, send_task,
                   drop_ctx, workers, stream, write_after_drop,
                   write_after_close,
                   writes>>
    /\ UNCHANGED <<asmVars, thrVars, bufVars, detVars, sinkVars, startVars,
                   hueVars, melVars, wledVars, serVars, pipeVars, nodeVars,
                   fileVars>>

\* The call returns and its guard is dropped.
AudioRelease ==
    /\ audio = "holding"
    /\ audio' = "idle" /\ lock' = "free"
    /\ UNCHANGED <<poll_task, channel, rx_alive, drop_pc, send_task,
                   drop_ctx, workers, stream, write_after_drop,
                   write_after_close,
                   writes>>
    /\ UNCHANGED <<asmVars, thrVars, bufVars, detVars, sinkVars, startVars,
                   hueVars, melVars, wledVars, serVars, pipeVars, nodeVars,
                   fileVars>>

(***************************************************************************)
(* Specification of the task-based polling helper (utils/lights/mod.rs)    *)
(***************************************************************************)
\* A runtime thread is free to run a task: Drop busy-waits on the thread it
\* is called on, which is a worker when it is called from a task.
ExecutorFree ==
    workers - (IF drop_ctx = "worker" /\ drop_pc = "wait" THEN 1 ELSE 0) >= 1

InitPollTask ==
    /\ IdleAsm /\ IdleThr /\ IdleBuf /\ IdleDet /\ IdleSink /\ IdleStart
    /\ IdleFile
    /\ IdleNode
    /\ IdlePipe
    /\ IdleSer
    /\ IdleWled
    /\ IdleMel
    /\ IdleHue
    /\ poll_task = "start" /\ lock = "free" /\ audio = "idle"
    /\ channel = 0 /\ rx_alive = TRUE
    /\ drop_pc = "live" /\ send_task = "none"
    /\ drop_ctx \in {"outside", "block_on", "worker"}
    /\ workers \in 1..MaxWorkers
    /\ stream = "open" /\ writes = 0
    /\ write_after_drop = FALSE /\ write_after_close = FALSE

\* pollable.clone().lock().unwrap()
TaskLock ==
    /\ poll_task \in {"start", "poll"}
    /\ ExecutorFree
    /\ lock = "free"
    /\ poll_task' = "locked" /\ lock' = "task"
    /\ UNCHANGED <<audio, channel, rx_alive, drop_pc, send_task, drop_ctx,
                   workers, stream, write_after_drop, write_after_close,
                   writes>>
    /\ UNCHANGED <<asmVars, thrVars, bufVars, detVars, sinkVars, startVars,
                   hueVars, melVars, wledVars, serVars, pipeVars, nodeVars,
                   fileVars>>

\* .poll() returns the bytes, the guard is dropped at the end of the block
\* and stream.write_data(&bytes) is started.
TaskSnapshot ==
    /\ poll_task = "locked"
    /\ ExecutorFree
    /\ poll_task' = "writing" /\ lock' = "free"
    /\ UNCHANGED <<audio, channel, rx_alive, drop_pc, send_task, drop_ctx,
                   workers, stream, write_after_drop, write_after_close,
                   writes>>
    /\ UNCHANGED <<asmVars, thrVars, bufVars, detVars, sinkVars, startVars,
                   hueVars, melVars, wledVars, serVars, pipeVars, nodeVars,
                   fileVars>>

\* write_data(..).await.unwrap(): a failed write panics the task, which
\* drops the receiver and the stream.
TaskWriteEnd(ok) ==
    /\ poll_task = "writing"
    /\ ExecutorFree
    /\ poll_task' = IF ok THEN "sleep" ELSE "panicked"
    /\ rx_alive' = ok
    /\ writes' = IF ok THEN writes + 1 ELSE writes
    /\ write_after_drop' = (write_after_drop \/ drop_pc = "returned")
    /\ write_after_close' = (write_after_close \/ stream = "closed")
    /\ UNCHANGED <<lock, audio, channel, drop_pc, send_task, drop_ctx,
                   workers, stream>>
    /\ UNCHANGED <<asmVars, thrVars, bufVars, detVars, sinkVars, startVars,
                   hueVars, melVars, wledVars, serVars, pipeVars, nodeVars,
                   fileVars>>

\* time::sleep(..).await elapses and the loop starts over.
TaskWake ==
    /\ poll_task = "sleep"
    /\ ExecutorFree
    /\ writes < MaxWrites
    /\ poll_task' = "poll"
    /\ UNCHANGED <<lock, audio, channel, rx_alive, drop_pc, send_task,
                   drop_ctx, workers, stream, write_after_drop,
                   write_after_close,
                   writes>>
    /\ UNCHANGED <<asmVars, thrVars, bufVars, detVars, sinkVars, startVars,
                   hueVars, melVars, wledVars, serVars, pipeVars, nodeVars,
                   fileVars>>

\* select!: rx.recv() is ready while the loop is at an await point (or not
\* yet started); the loop future is dropped and the stream closed.
TaskShutdown ==
    /\ poll_task \in {"start", "writing", "sleep"}
    /\ ExecutorFree
    /\ channel > 0
    /\ channel' = channel - 1
    /\ stream' = "closed"
    /\ poll_task' = "finished"
    /\ rx_alive' = FALSE
    /\ UNCHANGED <<lock, audio, drop_pc, send_task, drop_ctx, workers,
                   write_after_drop, write_after_close,
                   writes>>
    /\ UNCHANGED <<asmVars, thrVars, bufVars, detVars, sinkVars, startVars,
                   hueVars, melVars, wledVars, serVars, pipeVars, nodeVars,
                   fileVars>>

\* Drop up to the busy-wait: inside a runtime the send is spawned as a task,
\* outside a fresh runtime blocks on it; tx.send(..).await.unwrap() fails
\* once the receiver is gone.
DropBegin ==
    /\ drop_pc = "live"
    /\ IF drop_ctx \in {"worker", "block_on"}
         THEN /\ send_task' = "spawned"
              /\ drop_pc' = "wait"
              /\ channel' = channel
         ELSE /\ send_task' = send_task
              /\ drop_pc' = IF rx_alive THEN "wait" ELSE "panicked"
              /\ channel' = IF rx_alive THEN channel + 1 ELSE channel
    /\ UNCHANGED <<poll_task, lock, audio, rx_alive, drop_ctx, workers,
                   stream, write_after_drop, write_after_close,
                   writes>>
    /\ UNCHANGED <<asmVars, thrVars, bufVars, detVars, sinkVars, startVars,
                   hueVars, melVars, wledVars, serVars, pipeVars, nodeVars,
                   fileVars>>

\* The spawned task runs tx.send(true).await.unwrap().
SenderRun ==
    /\ send_task = "spawned"
    /\ ExecutorFree
    /\ send_task' = IF rx_alive THEN "done" ELSE "panicked"
    /\ channel' = IF rx_alive THEN channel + 1 ELSE channel
    /\ UNCHANGED <<poll_task, lock, audio, rx_alive, drop_pc, drop_ctx,
                   workers, stream, write_after_drop, write_after_close,
                   writes>>
    /\ UNCHANGED <<asmVars, thrVars, bufVars, detVars, sinkVars, startVars,
                   hueVars, melVars, wledVars, serVars, pipeVars, nodeVars,
                   fileVars>>

\* while !self.handle.is_finished() { sleep(10 ms) } falls through.
DropReturn ==
    /\ drop_pc = "wait"
    /\ TaskEnded
    /\ drop_pc' = "returned"
    /\ UNCHANGED <<poll_task, lock, audio, channel, rx_alive, send_task,
                   drop_ctx, workers, stream, write_after_drop,
                   write_after_close,
                   writes>>
    /\ UNCHANGED <<asmVars, thrVars, bufVars, detVars, sinkVars, startVars,
                   hueVars, melVars, wledVars, serVars, pipeVars, nodeVars,
                   fileVars>>

NextPollTask ==
    \/ TaskLock
    \/ TaskSnapshot
    \/ \E ok \in BOOLEAN : TaskWriteEnd(ok)
    \/ TaskWake
    \/ TaskShutdown
    \/ DropBegin
    \/ SenderRun
    \/ DropReturn
    \/ AudioCall
    \/ AudioAcquire
    \/ AudioRelease

SpecPollTask == InitPollTask /\ [][NextPollTask]_vars

\* The runtime runs every ready task, select! polls both branches whenever
\* the task is polled, a thread blocked in lock() gets the mutex once it is
\* released, and threads outside the runtime keep running.
FairPollTask ==
    /\ SpecPollTask
    /\ SF_vars(TaskLock)
    /\ WF_vars(TaskSnapshot)
    /\ WF_vars(\E ok \in BOOLEAN : TaskWriteEnd(ok))
    /\ WF_vars(TaskWake)
    /\ SF_vars(TaskShutdown)
    /\ WF_vars(SenderRun)
    /\ WF_vars(DropReturn)
    /\ WF_vars(AudioAcquire)
    /\ WF_vars(AudioRelease)

(***************************************************************************)
(* Specification of the thread-based polling helper (utils/lights.rs)      *)
(***************************************************************************)
InitPollThread ==
    /\ IdleAsm /\ IdleThr /\ IdleBuf /\ IdleDet /\ IdleSink /\ IdleStart
    /\ IdleFile
    /\ IdleNode
    /\ IdlePipe
    /\ IdleSer
    /\ IdleWled
    /\ IdleMel
    /\ IdleHue
    /\ poll_task = "check" /\ lock = "free" /\ audio = "idle"
    /\ channel = 0 /\ rx_alive = TRUE
    /\ drop_pc = "live" /\ send_task = "none"
    /\ drop_ctx = "outside" /\ workers = 1
    /\ stream = "open" /\ writes = 0
    /\ write_after_drop = FALSE /\ write_after_close = FALSE

\* match rx.try_recv(): a message ends the thread, Empty goes on.
ThreadCheck ==
    /\ poll_task = "check"
    /\ IF channel > 0
         THEN /\ channel' = channel - 1
              /\ poll_task' = "finished"
              /\ rx_alive' = FALSE
         ELSE /\ channel' = channel
              /\ poll_task' = "ready"
              /\ rx_alive' = rx_alive
    /\ UNCHANGED <<lock, audio, drop_pc, send_task, drop_ctx, workers,
                   stream, write_after_drop, write_after_close,
                   writes>>
    /\ UNCHANGED <<asmVars, thrVars, bufVars, detVars, sinkVars, startVars,
                   hueVars, melVars, wledVars, serVars, pipeVars, nodeVars,
                   fileVars>>

\* let colors = colors_rc.lock().unwrap()
ThreadLock ==
    /\ poll_task = "ready"
    /\ lock = "free"
    /\ poll_task' = "locked" /\ lock' = "task"
    /\ UNCHANGED <<audio, channel, rx_alive, drop_pc, send_task, drop_ctx,
                   workers, stream, write_after_drop, write_after_close,
                   writes>>
    /\ UNCHANGED <<asmVars, thrVars, bufVars, detVars, sinkVars, startVars,
                   hueVars, melVars, wledVars, serVars, pipeVars, nodeVars,
                   fileVars>>

\* format(&colors), then poller_rc.poll(&bytes) starts the blocking write;
\* the guard colors is still alive.
ThreadFormat ==
    /\ poll_task = "locked"
    /\ poll_task' = "writing"
    /\ UNCHANGED <<lock, audio, channel, rx_alive, drop_pc, send_task,
                   drop_ctx, workers, stream, write_after_drop,
                   write_after_close,
                   writes>>
    /\ UNCHANGED <<asmVars, thrVars, bufVars, detVars, sinkVars, startVars,
                   hueVars, melVars, wledVars, serVars, pipeVars, nodeVars,
                   fileVars>>

\* block_on(self.write(..)).unwrap() ends; a failure panics the thread
\* while it holds the guard, which poisons the mutex.
ThreadWriteEnd(ok) ==
    /\ poll_task = "writing"
    /\ poll_task' = IF ok THEN "written" ELSE "panicked"
    /\ lock' = IF ok THEN lock ELSE "poisoned"
    /\ rx_alive' = ok
    /\ writes' = IF ok THEN writes + 1 ELSE writes
    /\ write_after_drop' = (write_after_drop \/ drop_pc = "returned")
    /\ write_after_close' = (write_after_close \/ stream = "closed")
    /\ UNCHANGED <<audio, channel, drop_pc, send_task, drop_ctx, workers,
                   stream>>
    /\ UNCHANGED <<asmVars, thrVars, bufVars, detVars, sinkVars, startVars,
                   hueVars, melVars, wledVars, serVars, pipeVars, nodeVars,
                   fileVars>>

\* drop(colors)
ThreadUnlock ==
    /\ poll_task = "written"
    /\ poll_task' = "sleep" /\ lock' = "free"
    /\ UNCHANGED <<audio, channel, rx_alive, drop_pc, send_task, drop_ctx,
                   workers, stream, write_after_drop, write_after_close,
                   writes>>
    /\ UNCHANGED <<asmVars, thrVars, bufVars, detVars, sinkVars, startVars,
                   hueVars, melVars, wledVars, serVars, pipeVars, nodeVars,
                   fileVars>>

\* thread::sleep(..) elapses and the loop starts over.
ThreadWake ==
    /\ poll_task = "sleep"
    /\ writes < MaxWrites
    /\ poll_task' = "check"
    /\ UNCHANGED <<lock, audio, channel, rx_alive, drop_pc, send_task,
                   drop_ctx, workers, stream, write_after_drop,
                   write_after_close,
                   writes>>
    /\ UNCHANGED <<asmVars, thrVars, bufVars, detVars, sinkVars, startVars,
                   hueVars, melVars, wledVars, serVars, pipeVars, nodeVars,
                   fileVars>>

\* self.tx.send(true).unwrap()
DropSend ==
    /\ drop_pc = "live"
    /\ drop_pc' = IF rx_alive THEN "sent" ELSE "panicked"
    /\ channel' = IF rx_alive THEN channel + 1 ELSE channel
    /\ UNCHANGED <<poll_task, lock, audio, rx_alive, send_task, drop_ctx,
                   workers, stream, write_after_drop, write_after_close,
                   writes>>
    /\ UNCHANGED <<asmVars, thrVars, bufVars, detVars, sinkVars, startVars,
                   hueVars, melVars, wledVars, serVars, pipeVars, nodeVars,
                   fileVars>>

\* self.poller.close_connection(), after which drop returns.
DropClose ==
    /\ drop_pc = "sent"
    /\ stream' = "closed"
    /\ drop_pc' = "returned"
    /\ UNCHANGED <<poll_task, lock, audio, channel, rx_alive, send_task,
                   drop_ctx, workers, write_after_drop, write_after_close,
                   writes>>
    /\ UNCHANGED <<asmVars, thrVars, bufVars, detVars, sinkVars, startVars,
                   hueVars, melVars, wledVars, serVars, pipeVars, nodeVars,
                   fileVars>>

NextPollThread ==
    \/ ThreadCheck
    \/ ThreadLock
    \/ ThreadFormat
    \/ \E ok \in BOOLEAN : ThreadWriteEnd(ok)
    \/ ThreadUnlock
    \/ ThreadWake
    \/ DropSend
    \/ DropClose
    \/ AudioCall
    \/ AudioAcquire
    \/ AudioRelease

SpecPollThread == InitPollThread /\ [][NextPollThread]_vars

(***************************************************************************)
(* Sink fan-out.  A sink is one variant of LightService; calls records,    *)
(* per sink, the frame and the method of every call that reaches the       *)
(* consumer boxed in the variant.                                          *)
(***************************************************************************)
Kinds == {"Spectral", "Onset", "SpectralOnset"}

Call(frame, op) == [frame |-> frame, op |-> op]

\* impl OnsetConsumer for LightService, onset_detected
OnsetDetected(kind, log, frame) ==
    IF kind \in {"Onset", "SpectralOnset"}
        THEN Append(log, Call(frame, "onset_detected"))
        ELSE log

\* The onsets of one frame, forwarded one by one.
RECURSIVE ProcessOnsets(_, _, _, _)
ProcessOnsets(kind, log, frame, onsets) ==
    IF onsets = <<>>
        THEN log
        ELSE ProcessOnsets(kind, OnsetDetected(kind, log, frame), frame,
                           Tail(onsets))

\* impl SpectrumConsumer for LightService, process_spectrum
ProcessSpectrum(kind, log, frame) ==
    IF kind \in {"Spectral", "SpectralOnset"}
        THEN Append(log, Call(frame, "process_spectrum"))
        ELSE log

\* process_samples is a method of every sink.
ProcessSamples(kind, log, frame) ==
    Append(log, Call(frame, "process_samples"))

\* impl OnsetConsumer for LightService, update
Update(kind, log, frame) ==
    IF kind = "Onset"
        THEN Append(log, Call(frame, "update"))
        ELSE log

OnsetLists == {<<>>, <<"Raw">>, <<"Raw", "Full">>}

(***************************************************************************)
(* Specification of the sink fan-out                                       *)
(***************************************************************************)
InitSink ==
    /\ IdleAsm /\ IdleThr /\ IdleBuf /\ IdleDet /\ IdlePoll /\ IdleStart
    /\ IdleFile
    /\ IdleNode
    /\ IdlePipe
    /\ IdleSer
    /\ IdleWled
    /\ IdleMel
    /\ IdleHue
    /\ \E n \in 1..MaxSinks : lightservices \in [1..n -> Kinds]
    /\ calls = [i \in DOMAIN lightservices |-> <<>>]
    /\ disp_frame = 0

\* One pass of the frame loop of the capture callback: process_onsets,
\* process_spectrum, process_samples and update, each over all sinks.
DispatchFrame(onsets) ==
    /\ disp_frame < MaxFrames
    /\ disp_frame' = disp_frame + 1
    /\ calls' = [i \in DOMAIN lightservices |->
            LET kind == lightservices[i]
                k == disp_frame + 1
                l1 == ProcessOnsets(kind, calls[i], k, onsets)
                l2 == ProcessSpectrum(kind, l1, k)
                l3 == ProcessSamples(kind, l2, k)
            IN  Update(kind, l3, k)]
    /\ UNCHANGED lightservices
    /\ UNCHANGED <<asmVars, thrVars, bufVars, detVars, pollVars, startVars,
                   hueVars, melVars, wledVars, serVars, pipeVars, nodeVars,
                   fileVars>>

NextSink == \E onsets \in OnsetLists : DispatchFrame(onsets)

SpecSink == InitSink /\ [][NextSink]_vars

(***************************************************************************)
(* Startup.  An endpoint of the configuration is a record with its kind    *)
(* and ok, whether its connect call returns Ok; a started sink is named by *)
(* its kind and its index in the configuration.                            *)
(***************************************************************************)
Sink(kind, index) == [kind |-> kind, index |-> index]

\* for config in &self.wled { ... connect_with_settings(..).await? ... }:
\* the first Err returns from initialize_lightservices
RECURSIVE ConnectAll(_, _, _)
ConnectAll(endpoints, index, acc) ==
    IF acc.err \/ index > Len(endpoints)
    THEN acc
    ELSE IF endpoints[index].ok
         THEN ConnectAll(endpoints, index + 1,
                         [acc EXCEPT !.sinks =
                             Append(@, Sink(endpoints[index].kind, index))])
         ELSE [acc EXCEPT !.err = TRUE]

\* Config::initialize_lightservices
InitializeLightservicesOf(cfg) ==
    LET s1 == IF cfg.serialize_onsets THEN <<Sink("serializer", 1)>> ELSE <<>>
        s2 == IF cfg.console_output THEN Append(s1, Sink("console", 1)) ELSE s1
        w == ConnectAll(cfg.wled, 1, [err |-> FALSE, sinks |-> s2])
    IN  ConnectAll(cfg.hue, 1, w)

\* match ...connect(..).await { Ok(x) => lightservices.push(..), Err(e) =>
\* println!("{e}") }
RECURSIVE ConnectEach(_, _, _)
ConnectEach(endpoints, index, sinks) ==
    IF index > Len(endpoints)
    THEN sinks
    ELSE ConnectEach(endpoints, index + 1,
                     IF endpoints[index].ok
                     THEN Append(sinks, Sink(endpoints[index].kind, index))
                     ELSE sinks)

\* create_default_output_stream, up to the call of create_monitor_stream
DefaultLightservicesOf(cfg) ==
    LET h == ConnectEach(cfg.hue, 1, <<>>)
        w == ConnectEach(cfg.wled, 1, h)
    IN  w \o <<Sink("console", 1), Sink("serializer", 1)>>

\* endpoint lists of up to MaxEndpoints entries
EndpointLists(kinds) ==
    UNION {[1..n -> [kind : kinds, ok : BOOLEAN]] : n \in 0..MaxEndpoints}

(***************************************************************************)
(* Specification of the startup                                            *)
(***************************************************************************)
InitStart ==
    /\ IdleAsm /\ IdleThr /\ IdleBuf /\ IdleDet /\ IdlePoll /\ IdleSink
    /\ IdleFile
    /\ IdleNode
    /\ IdlePipe
    /\ IdleSer
    /\ IdleWled
    /\ IdleMel
    /\ IdleHue
    /\ \/ \E so, co \in BOOLEAN,
            wl \in EndpointLists({"wled_spectrum", "wled_onset"}),
            hu \in EndpointLists({"hue"}) :
               config = [mode |-> "config", serialize_onsets |-> so,
                         console_output |-> co, wled |-> wl, hue |-> hu]
       \/ \E h, w1, w2 \in BOOLEAN :
               config = [mode |-> "default", serialize_onsets |-> TRUE,
                         console_output |-> TRUE,
                         wled |-> <<[kind |-> "wled_spectrum", ok |-> w1],
                                    [kind |-> "wled_spectrum", ok |-> w2]>>,
                         hue |-> <<[kind |-> "hue", ok |-> h]>>]
    /\ startup = "configured"
    /\ started = <<>>

InitializeLightservices ==
    /\ startup = "configured"
    /\ config.mode = "config"
    /\ LET r == InitializeLightservicesOf(config)
       IN  /\ startup' = IF r.err THEN "failed" ELSE "started"
           /\ started' = IF r.err THEN <<>> ELSE r.sinks
    /\ UNCHANGED config
    /\ UNCHANGED <<asmVars, thrVars, bufVars, detVars, pollVars, sinkVars,
                   hueVars, melVars, wledVars, serVars, pipeVars, nodeVars,
                   fileVars>>

CreateDefaultOutputStream ==
    /\ startup = "configured"
    /\ config.mode = "default"
    /\ startup' = "started"
    /\ started' = DefaultLightservicesOf(config)
    /\ UNCHANGED config
    /\ UNCHANGED <<asmVars, thrVars, bufVars, detVars, pollVars, sinkVars,
                   hueVars, melVars, wledVars, serVars, pipeVars, nodeVars,
                   fileVars>>

NextStart ==
    \/ InitializeLightservices
    \/ CreateDefaultOutputStream

SpecStart == InitStart /\ [][NextStart]_vars

(***************************************************************************)
(* Specification of the bridge sink                                        *)
(***************************************************************************)
InitHue ==
    /\ IdleAsm /\ IdleThr /\ IdleBuf /\ IdleDet /\ IdlePoll /\ IdleSink
    /\ IdleFile
    /\ IdleNode
    /\ IdlePipe
    /\ IdleSer
    /\ IdleWled
    /\ IdleMel
    /\ IdleStart
    /\ now = 0
    /\ \E area \in Areas :
          hue_state = HueStateWithSettings(area, DefaultLightSettings, 0)
    /\ hue_event = NoEvent
    /\ hue_datagram = <<>>

\* time passes
HueTick ==
    /\ now < MaxTicks * TickMs
    /\ now' = now + TickMs
    /\ hue_event' = NoEvent
    /\ hue_datagram' = <<>>
    /\ UNCHANGED hue_state
    /\ UNCHANGED <<asmVars, thrVars, bufVars, detVars, pollVars, sinkVars,
                   startVars, melVars, wledVars, serVars, pipeVars, nodeVars,
                   fileVars>>

\* the audio thread delivers an onset
HueOnset(event) ==
    /\ hue_state' = HueProcessOnset(hue_state, event, now)
    /\ hue_event' = event
    /\ hue_datagram' = <<>>
    /\ UNCHANGED now
    /\ UNCHANGED <<asmVars, thrVars, bufVars, detVars, pollVars, sinkVars,
                   startVars, melVars, wledVars, serVars, pipeVars, nodeVars,
                   fileVars>>

\* the polling task takes a snapshot
HuePolled ==
    /\ hue_datagram' = HuePoll(hue_state, now)
    /\ UNCHANGED <<now, hue_state, hue_event>>
    /\ UNCHANGED <<asmVars, thrVars, bufVars, detVars, pollVars, sinkVars,
                   startVars, melVars, wledVars, serVars, pipeVars, nodeVars,
                   fileVars>>

NextHue ==
    \/ HueTick
    \/ \E kind \in OnsetKinds, strength \in Strengths :
          HueOnset([kind |-> kind, strength |-> strength])
    \/ HuePolled

SpecHue == InitHue /\ [][NextHue]_vars

(***************************************************************************)
(* Specification of the mel filter bank.  A weight is the pair             *)
(* <<numerator, denominator>> of the quotient the code stores.             *)
(***************************************************************************)
\* the non-decreasing sequences of n values in lo..hi
RECURSIVE NonDecreasing(_, _, _)
NonDecreasing(n, lo, hi) ==
    IF n = 0 THEN {<<>>}
    ELSE UNION {{<<x>> \o q : q \in NonDecreasing(n - 1, x, hi)} : x \in lo..hi}

\* fft_size of the banks
MelFftSize == 8

\* sample rates of the banks: bin_res = sample_rate / fft_size is 1 or 2
MelSampleRates == {8, 16}

\* the band edge frequencies: mel_to_hertz is increasing, so is the list
MelPoints == UNION {NonDecreasing(bands + 2, 0, MaxHz) : bands \in 1..MaxBands}

\* freq_bins of a frame: fft_size / 2 + 1 magnitudes
MelSpectra == SeqsOf({0, 1}, MelFftSize \div 2 + 1)

\* the bin band m starts at, as filter computes it
BandStart(bank, m) == bank.points[m] \div (bank.sample_rate \div bank.fft_size)

\* the bins freq_bins[start..(start + band.len())] of band m
BandBins(bank, m) ==
    {BandStart(bank, m) + k - 1 : k \in 1..Len(bank.filter[m])}

\* the weight filter multiplies bin k with in band m, 0 outside the band
WeightAt(bank, m, k) ==
    IF k \in BandBins(bank, m)
    THEN bank.filter[m][k - BandStart(bank, m) + 1]
    ELSE <<0, 1>>

\* the sum of the weights of bands 1..m at bin k, as a quotient
RECURSIVE WeightSum(_, _, _)
WeightSum(bank, m, k) ==
    IF m = 0 THEN <<0, 1>>
    ELSE LET a == WeightSum(bank, m - 1, k)
             b == WeightAt(bank, m, k)
         IN  <<a[1] * b[2] + b[1] * a[2], a[2] * b[2]>>

\* the slice freq_bins[start..(start + band.len())] is in range for every band
SlicesInRange(bank, freq_bins) ==
    \A m \in 1..Len(bank.filter) :
        BandStart(bank, m) + Len(bank.filter[m]) <= Len(freq_bins)

InitMel ==
    /\ IdleAsm /\ IdleThr /\ IdleBuf /\ IdleDet /\ IdlePoll /\ IdleSink
    /\ IdleFile
    /\ IdleNode
    /\ IdlePipe
    /\ IdleSer
    /\ IdleWled
    /\ IdleStart /\ IdleHue
    /\ \E sample_rate \in MelSampleRates, mel \in MelPoints :
          mel_bank = MelFilterBankInit(sample_rate, MelFftSize, Len(mel) - 2, mel)
    /\ mel_spectrum = <<>>
    /\ mel_out = [panicked |-> FALSE, out |-> <<>>]

\* MelFilterBank::filter on one frame; a slice out of range panics
CallMelFilter(freq_bins) ==
    /\ mel_spectrum' = freq_bins
    /\ mel_out' = IF SlicesInRange(mel_bank, freq_bins)
                  THEN [panicked |-> FALSE, out |-> MelFilter(mel_bank, freq_bins)]
                  ELSE [panicked |-> TRUE, out |-> <<>>]
    /\ UNCHANGED mel_bank
    /\ UNCHANGED <<asmVars, thrVars, bufVars, detVars, pollVars, sinkVars,
                   startVars, hueVars, wledVars, serVars, pipeVars, nodeVars,
                   fileVars>>

NextMel == \E freq_bins \in MelSpectra : CallMelFilter(freq_bins)

SpecMel == InitMel /\ [][NextMel]_vars

(***************************************************************************)
(* Specification of the spectrum LED-strip sink                            *)
(***************************************************************************)
\* the colours a sub-window can get
Pixels == {<<255, 0, 0>>, <<0, 0, 255>>}

InitSpectrum ==
    /\ IdleAsm /\ IdleThr /\ IdleBuf /\ IdleDet /\ IdlePoll /\ IdleSink
    /\ IdleFile
    /\ IdleNode
    /\ IdlePipe
    /\ IdleSer
    /\ IdleStart /\ IdleHue /\ IdleMel
    /\ wled_now = 0
    /\ \E led_count \in 1..MaxLeds, samples_per_led \in 1..MaxPerLed,
          center \in BOOLEAN :
          spectrum_state = SpectrumStateInit(led_count, samples_per_led, center,
                                             DefaultSpectrumTimeout, 0)
    /\ spectrum_datagram = <<>>
    /\ spectrum_received = 0
    /\ spectrum_blocks = <<>>
    /\ onset_state = OnsetStateInit(1, FALSE, FullBrightness, DefaultOnsetTimeout, 0)
    /\ onset_datagram = <<>>

\* time passes
SpectrumTick ==
    /\ wled_now < MaxTicks * TickMs
    /\ wled_now' = wled_now + TickMs
    /\ spectrum_datagram' = <<>>
    /\ UNCHANGED <<spectrum_state, spectrum_received, spectrum_blocks, onset_state,
                   onset_datagram>>
    /\ UNCHANGED <<asmVars, thrVars, bufVars, detVars, pollVars, sinkVars,
                   startVars, hueVars, melVars, serVars, pipeVars, nodeVars,
                   fileVars>>

\* the audio thread hands count samples to process_samples
SpectrumSamples(count, rgbs) ==
    /\ spectrum_received + count <= MaxReceived
    /\ Len(rgbs) = SubWindows(spectrum_state, count)
    /\ spectrum_state' = VisualizeSpectrum(spectrum_state, count, rgbs)
    /\ spectrum_received' = spectrum_received + count
    /\ spectrum_blocks' = spectrum_blocks
                             \o FilteredSlices(spectrum_state, count, spectrum_received)
    /\ spectrum_datagram' = <<>>
    /\ UNCHANGED <<wled_now, onset_state, onset_datagram>>
    /\ UNCHANGED <<asmVars, thrVars, bufVars, detVars, pollVars, sinkVars,
                   startVars, hueVars, melVars, serVars, pipeVars, nodeVars,
                   fileVars>>

\* the audio thread delivers an onset
SpectrumOnset(event) ==
    /\ spectrum_state' = SpectrumProcessOnset(spectrum_state, event, wled_now)
    /\ spectrum_datagram' = <<>>
    /\ UNCHANGED <<wled_now, spectrum_received, spectrum_blocks, onset_state,
                   onset_datagram>>
    /\ UNCHANGED <<asmVars, thrVars, bufVars, detVars, pollVars, sinkVars,
                   startVars, hueVars, melVars, serVars, pipeVars, nodeVars,
                   fileVars>>

\* the polling task takes a snapshot
SpectrumPolled ==
    /\ spectrum_datagram' = SpectrumPoll(spectrum_state)
    /\ UNCHANGED <<wled_now, spectrum_state, spectrum_received, spectrum_blocks,
                   onset_state, onset_datagram>>
    /\ UNCHANGED <<asmVars, thrVars, bufVars, detVars, pollVars, sinkVars,
                   startVars, hueVars, melVars, serVars, pipeVars, nodeVars,
                   fileVars>>

NextSpectrum ==
    \/ SpectrumTick
    \/ \E count \in 0..MaxSamples :
          \E rgbs \in SeqsOf(Pixels, SubWindows(spectrum_state, count)) :
             SpectrumSamples(count, rgbs)
    \/ \E kind \in WledOnsetKinds, strength \in Strengths :
          SpectrumOnset([kind |-> kind, strength |-> strength])
    \/ SpectrumPolled

SpecSpectrum == InitSpectrum /\ [][NextSpectrum]_vars

(***************************************************************************)
(* Specification of the onset LED-strip sink                               *)
(***************************************************************************)
InitOnsetStrip ==
    /\ IdleAsm /\ IdleThr /\ IdleBuf /\ IdleDet /\ IdlePoll /\ IdleSink
    /\ IdleFile
    /\ IdleNode
    /\ IdlePipe
    /\ IdleSer
    /\ IdleStart /\ IdleHue /\ IdleMel
    /\ wled_now = 0
    /\ spectrum_state = SpectrumStateInit(1, 1, TRUE, DefaultSpectrumTimeout, 0)
    /\ spectrum_datagram = <<>>
    /\ spectrum_received = 0
    /\ spectrum_blocks = <<>>
    /\ \E led_count \in 1..MaxLeds, rgbw \in BOOLEAN :
          onset_state = OnsetStateInit(led_count, rgbw, FullBrightness,
                                       DefaultOnsetTimeout, 0)
    /\ onset_datagram = <<>>

\* time passes
OnsetTick ==
    /\ wled_now < MaxTicks * TickMs
    /\ wled_now' = wled_now + TickMs
    /\ onset_datagram' = <<>>
    /\ UNCHANGED <<onset_state, spectrum_state, spectrum_datagram,
                   spectrum_received, spectrum_blocks>>
    /\ UNCHANGED <<asmVars, thrVars, bufVars, detVars, pollVars, sinkVars,
                   startVars, hueVars, melVars, serVars, pipeVars, nodeVars,
                   fileVars>>

\* the audio thread delivers an onset
OnsetStripOnset(event) ==
    /\ onset_state' = OnsetProcessOnset(onset_state, event, wled_now)
    /\ onset_datagram' = <<>>
    /\ UNCHANGED <<wled_now, spectrum_state, spectrum_datagram,
                   spectrum_received, spectrum_blocks>>
    /\ UNCHANGED <<asmVars, thrVars, bufVars, detVars, pollVars, sinkVars,
                   startVars, hueVars, melVars, serVars, pipeVars, nodeVars,
                   fileVars>>

\* the polling task takes a snapshot
OnsetPolled ==
    /\ onset_datagram' = OnsetPoll(onset_state, wled_now)
    /\ UNCHANGED <<wled_now, onset_state, spectrum_state, spectrum_datagram,
                   spectrum_received, spectrum_blocks>>
    /\ UNCHANGED <<asmVars, thrVars, bufVars, detVars, pollVars, sinkVars,
                   startVars, hueVars, melVars, serVars, pipeVars, nodeVars,
                   fileVars>>

NextOnsetStrip ==
    \/ OnsetTick
    \/ \E kind \in WledOnsetKinds, strength \in Strengths :
          OnsetStripOnset([kind |-> kind, strength |-> strength])
    \/ OnsetPolled

SpecOnsetStrip == InitOnsetStrip /\ [][NextOnsetStrip]_vars

(***************************************************************************)
(* Specification of the file serializer                                    *)
(***************************************************************************)
InitSer ==
    /\ IdleAsm /\ IdleThr /\ IdleBuf /\ IdleDet /\ IdlePoll /\ IdleSink
    /\ IdleFile
    /\ IdleNode
    /\ IdlePipe
    /\ IdleStart /\ IdleHue /\ IdleMel /\ IdleWled
    /\ \E sample_rate \in ContainerRates, hop \in ContainerHops :
          onset_container = OnsetContainerInit(sample_rate, hop)
    /\ ser_calls = <<>>
    /\ ser_updates = 0

\* the audio thread delivers an onset of the current frame
SerProcessOnset(event) ==
    /\ Len(ser_calls) < MaxOnsets
    /\ onset_container' = ContainerProcessOnset(onset_container, event)
    /\ ser_calls' = Append(ser_calls, [frame |-> ser_updates, event |-> event])
    /\ UNCHANGED ser_updates
    /\ UNCHANGED <<asmVars, thrVars, bufVars, detVars, pollVars, sinkVars,
                   startVars, hueVars, melVars, wledVars, pipeVars, nodeVars,
                   fileVars>>

\* the audio thread ends the frame
SerUpdate ==
    /\ ser_updates < MaxUpdates
    /\ onset_container' = ContainerUpdate(onset_container)
    /\ ser_updates' = ser_updates + 1
    /\ UNCHANGED ser_calls
    /\ UNCHANGED <<asmVars, thrVars, bufVars, detVars, pollVars, sinkVars,
                   startVars, hueVars, melVars, wledVars, pipeVars, nodeVars,
                   fileVars>>

NextSer ==
    \/ \E event \in ContainerEvents : SerProcessOnset(event)
    \/ SerUpdate

SpecSer == InitSer /\ [][NextSer]_vars

(***************************************************************************)
(* Specification of the capture pipeline on a silent stream                *)
(***************************************************************************)
InitPipeline ==
    /\ IdleAsm /\ IdleThr /\ IdleBuf /\ IdleDet /\ IdlePoll /\ IdleSink
    /\ IdleFile
    /\ IdleNode
    /\ IdleStart /\ IdleHue /\ IdleMel /\ IdleWled /\ IdleSer
    /\ \E detector \in {"SpecFlux", "HFC"} : pipeline = PipelineInit(detector)

\* the host delivers the next chunk
DeliverChunk(count) ==
    /\ count <= pipeline.left
    /\ pipeline' = PipelineCallback(pipeline, count)
    /\ UNCHANGED <<asmVars, thrVars, bufVars, detVars, pollVars, sinkVars,
                   startVars, hueVars, melVars, wledVars, serVars, nodeVars,
                   fileVars>>

NextPipeline == \E count \in {200, 2000, 8000, 20000} : DeliverChunk(count)

SpecPipeline == InitPipeline /\ [][NextPipeline]_vars

(***************************************************************************)
(* Specification of a processing node                                      *)
(***************************************************************************)
InitNode ==
    /\ IdleAsm /\ IdleThr /\ IdleBuf /\ IdleDet /\ IdlePoll /\ IdleSink
    /\ IdleFile
    /\ IdleStart /\ IdleHue /\ IdleMel /\ IdleWled /\ IdleSer /\ IdlePipe
    /\ \E kind \in NodeKinds, size \in 1..MaxNodeSize :
          \E hop \in 1..size :
             /\ kind \notin {"Aggregate", "Window"} => hop = 1
             /\ kind \notin {"Aggregate", "Window", "FFT", "MelFilterBankNode"}
                   => size = 1
             /\ node = NodeInit(kind, size, hop)
    /\ node_tasks = <<>>
    /\ upstream = [sent |-> 0, closed |-> FALSE]
    /\ subscribers \in BOOLEAN
    /\ node_sent = <<>>
    /\ node_received = <<>>

\* the spawned task appended to the tasks, and the node holding its handle
Spawned(ts, saved) == Append(ts, NewTask(node.kind, saved))

\* follow: stop or abort the previous task, subscribe, spawn
Follow ==
    /\ node.caller = "idle"
    /\ ~upstream.closed
    /\ Len(node_tasks) < MaxTasks
    /\ IF node.kind \notin StopKinds
       THEN /\ node_tasks' = Spawned(Abort(node_tasks, node.handle), <<>>)
            /\ node' = [node EXCEPT !.handle = Len(node_tasks) + 1,
                                    !.stop_signal = Len(node_tasks) + 1,
                                    !.last = "follow"]
       ELSE IF node.stop_signal = 0
       THEN /\ node_tasks' = Spawned(node_tasks, node.buffer)
            /\ node' = [node EXCEPT !.handle = Len(node_tasks) + 1,
                                    !.stop_signal = Len(node_tasks) + 1,
                                    !.buffer = <<>>,
                                    !.last = "follow"]
       ELSE /\ node_tasks' = [node_tasks EXCEPT ![node.stop_signal].stop = "sent"]
            /\ node' = [node EXCEPT !.stop_signal = 0, !.caller = "follow"]
    /\ UNCHANGED <<upstream, subscribers, node_sent, node_received>>
    /\ UNCHANGED <<asmVars, thrVars, bufVars, detVars, pollVars, sinkVars,
                   startVars, hueVars, melVars, wledVars, serVars, pipeVars,
                   fileVars>>

\* unfollow: NodeTrait::unfollow aborts the handle, the overrides call stop_task
Unfollow ==
    /\ node.caller = "idle"
    /\ IF node.kind \notin StopKinds
       THEN /\ node_tasks' = Abort(node_tasks, node.handle)
            /\ node' = [node EXCEPT !.handle = 0, !.last = "unfollow"]
       ELSE IF node.stop_signal = 0
       THEN /\ node_tasks' = node_tasks
            /\ node' = [node EXCEPT !.last = "unfollow"]
       ELSE /\ node_tasks' = [node_tasks EXCEPT ![node.stop_signal].stop = "sent"]
            /\ node' = [node EXCEPT !.stop_signal = 0, !.caller = "unfollow"]
    /\ UNCHANGED <<upstream, subscribers, node_sent, node_received>>
    /\ UNCHANGED <<asmVars, thrVars, bufVars, detVars, pollVars, sinkVars,
                   startVars, hueVars, melVars, wledVars, serVars, pipeVars,
                   fileVars>>

\* stop_task: handle.await returns once the task has ended; follow then
\* spawns the new task around the returned buffer
AwaitHandle ==
    /\ node.caller # "idle"
    /\ node_tasks[node.handle].pc = "done"
    /\ LET saved == node_tasks[node.handle].buffer
       IN  IF node.caller = "follow"
           THEN /\ node_tasks' = Spawned(node_tasks, saved)
                /\ node' = [node EXCEPT !.handle = Len(node_tasks) + 1,
                                        !.stop_signal = Len(node_tasks) + 1,
                                        !.buffer = <<>>,
                                        !.caller = "idle",
                                        !.last = "follow"]
           ELSE /\ node_tasks' = node_tasks
                /\ node' = [node EXCEPT !.handle = 0,
                                        !.buffer = saved,
                                        !.caller = "idle",
                                        !.last = "unfollow"]
    /\ UNCHANGED <<upstream, subscribers, node_sent, node_received>>
    /\ UNCHANGED <<asmVars, thrVars, bufVars, detVars, pollVars, sinkVars,
                   startVars, hueVars, melVars, wledVars, serVars, pipeVars,
                   fileVars>>

\* the runtime polls task i
TaskPoll(i) ==
    /\ i <= Len(node_tasks)
    /\ Alive(node_tasks[i])
    /\ \E r \in Polls(node_tasks[i]) :
          /\ r.task # node_tasks[i]
          /\ node_tasks' = [node_tasks EXCEPT ![i] = r.task]
          /\ node_sent' = node_sent \o r.sent
          /\ node_received' = node_received \o r.got
    /\ UNCHANGED <<node, upstream, subscribers>>
    /\ UNCHANGED <<asmVars, thrVars, bufVars, detVars, pollVars, sinkVars,
                   startVars, hueVars, melVars, wledVars, serVars, pipeVars,
                   fileVars>>

\* the followed node sends a message of n items to every subscribed receiver
UpstreamSend(n) ==
    /\ ~upstream.closed
    /\ upstream.sent + n <= MaxItems
    /\ node.kind \notin ArrayKinds => n = 1
    /\ LET message == [j \in 1..n |-> upstream.sent + j]
       IN  node_tasks' = [i \in 1..Len(node_tasks) |->
                            IF Alive(node_tasks[i])
                            THEN [node_tasks[i] EXCEPT !.queue = Append(@, message)]
                            ELSE node_tasks[i]]
    /\ upstream' = [upstream EXCEPT !.sent = @ + n]
    /\ UNCHANGED <<node, subscribers, node_sent, node_received>>
    /\ UNCHANGED <<asmVars, thrVars, bufVars, detVars, pollVars, sinkVars,
                   startVars, hueVars, melVars, wledVars, serVars, pipeVars,
                   fileVars>>

\* the followed node and every clone of its sender are dropped
UpstreamClose ==
    /\ ~upstream.closed
    /\ node.caller = "idle"
    /\ upstream' = [upstream EXCEPT !.closed = TRUE]
    /\ UNCHANGED <<node, node_tasks, subscribers, node_sent, node_received>>
    /\ UNCHANGED <<asmVars, thrVars, bufVars, detVars, pollVars, sinkVars,
                   startVars, hueVars, melVars, wledVars, serVars, pipeVars,
                   fileVars>>

\* a receiver of the node's own channel is subscribed or dropped
SetSubscribers ==
    /\ subscribers' = ~subscribers
    /\ UNCHANGED <<node, node_tasks, upstream, node_sent, node_received>>
    /\ UNCHANGED <<asmVars, thrVars, bufVars, detVars, pollVars, sinkVars,
                   startVars, hueVars, melVars, wledVars, serVars, pipeVars,
                   fileVars>>

NextNode ==
    \/ Follow
    \/ Unfollow
    \/ AwaitHandle
    \/ \E i \in 1..MaxTasks : TaskPoll(i)
    \/ \E n \in 1..MaxMsg : UpstreamSend(n)
    \/ UpstreamClose
    \/ SetSubscribers

SpecNode == InitNode /\ [][NextNode]_vars

\* the runtime polls every task that can make progress
FairNode == SpecNode /\ \A i \in 1..MaxTasks : WF_vars(TaskPoll(i))

(***************************************************************************)
(* Specification of the file benchmark                                     *)
(***************************************************************************)
InitFile ==
    /\ IdleAsm /\ IdleThr /\ IdleBuf /\ IdleDet /\ IdlePoll /\ IdleSink
    /\ IdleStart /\ IdleHue /\ IdleMel /\ IdleWled /\ IdleSer /\ IdlePipe
    /\ IdleNode
    /\ \E build \in {"debug", "release"}, chans \in 1..MaxChannels,
          size \in 1..MaxBuffer, length \in 0..MaxTotal :
          \E hop \in 1..size :
             file = ProcessFileInit(build, chans, size, hop, length)

\* the next chunk of the decoded samples is processed
NextChunk ==
    /\ file.left > 0
    /\ file.panicked = "no"
    /\ file' = ProcessChunk(file)
    /\ UNCHANGED <<asmVars, thrVars, bufVars, detVars, pollVars, sinkVars,
                   startVars, hueVars, melVars, wledVars, serVars, pipeVars,
                   nodeVars>>

NextFile == NextChunk

SpecFile == InitFile /\ [][NextFile]_vars

(***************************************************************************)
(* Properties of the frame assembler                                       *)
(***************************************************************************)
\* samples per channel received so far, and the per-channel settings
TotalPerChannel == received \div channels
BufferPerChannel == buffer_size \div channels
HopPerChannel == hop_size \div channels

\* C1: once T >= buffer_size samples per channel have arrived, exactly
\* floor((T - buffer_size)/hop_size) + 1 frames have been handed over, each
\* buffer_size*C interleaved samples long; while T < buffer_size, none.
C1_FrameCount ==
    /\ Len(frames) = IF TotalPerChannel >= BufferPerChannel
                     THEN (TotalPerChannel - BufferPerChannel) \div HopPerChannel + 1
                     ELSE 0
    /\ \A f \in 1..Len(frames) : Len(frames[f]) = BufferPerChannel * channels

C1_Witness ==
    /\ TotalPerChannel >= BufferPerChannel
    /\ Len(frames) >= 3
    /\ HopPerChannel < BufferPerChannel
    /\ Cardinality(chunks) >= 2
    /\ 0 \in chunks

\* C2: the k-th frame (k from 0) is the buffer_size*C interleaved samples of
\* the capture stream starting at interleaved index k*hop_size*C; hence frames
\* come in increasing k, none skipped or repeated, whatever the chunking.
C2_FrameAlignment ==
    \A f \in 1..Len(frames) :
        frames[f] = [i \in 1..buffer_size |-> (f - 1) * hop_size + i - 1]

C2_Witness ==
    /\ Len(frames) >= 3
    /\ channels = 2
    /\ hop_size < buffer_size
    /\ Cardinality(chunks) >= 3
    /\ Len(buffer) > 0

\* every round of a loop of n rounds on a queue of len samples reads its
\* frame and drains its hop within the queue's current length
RECURSIVE RoundsInRange(_, _, _, _)
RoundsInRange(len, n, hop, size) ==
    IF n = 0 THEN TRUE
    ELSE /\ size <= len
         /\ hop <= len
         /\ RoundsInRange(len - hop, n - 1, hop, size)

\* the rounds of a callback stay within the queue
C24_CallbackInRange ==
    LET len == Len(buffer) + (received' - received)
    IN  RoundsInRange(len, NumFrames(len, hop_size, buffer_size), hop_size, buffer_size)

\* C24: after every callback the queue holds fewer than buffer_size * C
\* samples, and within the callback every frame read and every removal of a
\* hop stays within the queue's current length, whatever the chunk sizes
C24_QueueBounded == [](Len(buffer) < buffer_size) /\ [][C24_CallbackInRange]_vars

\* an empty chunk and a chunk shorter than a hop have been delivered, frames
\* were handed over and samples are left in the queue
C24_Witness ==
    /\ 0 \in chunks
    /\ \E k \in chunks : 0 < k /\ k < HopPerChannel
    /\ Len(frames) >= 2
    /\ Len(buffer) >= hop_size

(***************************************************************************)
(* Properties of the advanced threshold                                    *)
(***************************************************************************)
\* C5: any two emitted onsets are at least Delay + 1 calls apart.
C5_Refractory ==
    \A i, j \in 1..Len(emitted) :
        (i < j /\ emitted[i] /\ emitted[j]) => j - i >= Delay + 1

\* the r inputs that preceded call i, most recent first (zero before the first)
Previous(i, r) == [j \in 1..r |-> IF i - j >= 1 THEN inputs[i - j] ELSE 0]

\* the threshold condition of call i, on the inputs that preceded it
RawCandidate(i) ==
    ExceedsThreshold(threshold,
                     Previous(i, Max2(threshold.max_range,
                                      Max2(threshold.mean_range, threshold.threshold_range))),
                     inputs[i])

\* input i is a candidate: the condition holds and no candidate lies in the
\* Delay calls before it
RECURSIVE Candidate(_)
Candidate(i) ==
    IF i < 1 THEN FALSE
    ELSE RawCandidate(i) /\ \A d \in 1..Delay : ~Candidate(i - d)

\* two onsets exactly Delay + 1 calls apart, each emitted for a candidate
C5_Witness ==
    \E i \in (Delay + 1)..Len(emitted) :
        /\ i + Delay + 1 <= Len(emitted)
        /\ emitted[i] /\ emitted[i + Delay + 1]
        /\ RawCandidate(i - Delay) /\ RawCandidate(i + 1)

\* C6: an onset is emitted at call t iff the input of call t - Delay was a
\* candidate; no onset is emitted when no input is a candidate.
C6_EmitIffCandidate ==
    \A t \in 1..Len(emitted) : emitted[t] <=> Candidate(t - Delay)

\* C26: the history of the threshold holds exactly
\* L = max(mean_range, max_range, threshold_range) values, all zero before
\* the first call and the last L inputs (most recent first) after any number
\* of calls.
C26_HistoryHoldsL ==
    LET L == Max2(threshold.mean_range,
                  Max2(threshold.max_range, threshold.threshold_range))
    IN  threshold.past_samples = Previous(Len(inputs) + 1, L)

\* C22: while the inputs are the synthetic sequence, the emitted booleans are
\* false at every index except index 4 (from 0), where it is true
C22_ScenarioEmits ==
    inputs = SubSeq(Scenario, 1, Len(inputs)) =>
        \A i \in 1..Len(emitted) : emitted[i] <=> (i - 1 = 4)

(***************************************************************************)
(* Properties of the analysis buffer                                       *)
(***************************************************************************)
\* C4: after process_raw on an all-zero frame every field of the analysis
\* buffer (per-channel buffers, mono, spectrum, peak, rms) is zero, whatever
\* the previous frame left in them.
C4_SilenceZeroes ==
    (last_data # <<>> /\ ~Sound(last_data)) => AllZero(detection_buffer)

C4_Witness ==
    /\ last_data # <<>> /\ ~Sound(last_data)
    /\ dirty
    /\ detection_buffer.channels = 2
    /\ AllZero(detection_buffer)

\* C12: when the FFT reports an error for a frame, the spectrum of that
\* frame is all zero (no magnitude of an earlier frame is left in it, nor
\* in the FFT output it is computed from), and the next frame is processed.
C12_FftErrorSilent ==
    fft_error =>
        /\ \A k \in 1..Len(detection_buffer.freq_bins) :
              detection_buffer.freq_bins[k] = 0
        /\ \A c \in 1..Len(detection_buffer.fft_output) :
              \A k \in 1..Len(detection_buffer.fft_output[c]) :
                 detection_buffer.fft_output[c][k] = <<0, 0>>

C12_Witness ==
    /\ fft_error
    /\ dirty
    /\ detection_buffer.rms > 0
    /\ \A k \in 1..Len(detection_buffer.freq_bins) :
          detection_buffer.freq_bins[k] = 0

(***************************************************************************)
(* Properties of the onset detectors                                       *)
(***************************************************************************)
\* C3: for an all-zero frame, whatever preceded it, HFC emits no onset and
\* SpecFlux emits only Raw(0): no Full, Drum, Hihat or Note.
C3_SilenceNeutral ==
    (det_count > 0 /\ det_frame = SilentFrame) =>
        /\ hfc_onsets = <<>>
        /\ sf_onsets = <<Onset("Raw", 0, NoBin)>>

\* the smallest 0-based index at which s has its maximum
FirstIndexOfMax(s) ==
    (CHOOSE i \in 1..Len(s) :
        /\ \A j \in 1..Len(s) : s[j] <= s[i]
        /\ \A j \in 1..(i - 1) : s[j] < s[i]) - 1

\* C21: the dominant bin a detector reports in a Note or Atmosphere onset is
\* the smallest index among the bins that share the maximum magnitude (HFC
\* reports it multiplied by the bin resolution, and for Note within the mids)
C21_SmallestIndexWins ==
    /\ \A i \in 1..Len(sf_onsets) :
          sf_onsets[i].kind = "Note" =>
             sf_onsets[i].bin = FirstIndexOfMax(det_frame.freq_bins)
    /\ \A i \in 1..Len(hfc_onsets) :
          hfc_onsets[i].kind = "Atmosphere" =>
             hfc_onsets[i].bin
                = (FirstIndexOfMax(det_frame.freq_bins) * hfc.bin_resolution) % 65536

(***************************************************************************)
(* Properties of the polling helpers                                       *)
(***************************************************************************)
\* C7: once Drop has returned no write to the stream ends any more, the
\* stream is closed by then, and no write ends after the close (so none is
\* in progress when the stream is closed, and none starts later).
C7_NoWriteAfterDrop ==
    /\ ~write_after_drop
    /\ ~write_after_close
    /\ (drop_pc = "returned" => stream = "closed")

\* C8: Drop returns only after the background task has finished, and every
\* Drop that was entered returns.
C8_DropReturns ==
    /\ [](drop_pc = "returned" => TaskEnded)
    /\ ((drop_pc # "live") ~> (drop_pc = "returned"))

\* C9: the poller never holds the state lock while a write to the stream is
\* in progress, so no audio-thread call waits for the lock during a write.
C9_LockOnlyForSnapshot ==
    /\ ~(poll_task = "writing" /\ lock = "task")
    /\ ~(audio = "waiting" /\ lock = "task" /\ poll_task = "writing")

\* C11: a failed write does not end the polling task (it goes on to the next
\* tick) and does not make a later Drop fail.
C11_WriteFailureSurvives ==
    /\ poll_task # "panicked"
    /\ drop_pc # "panicked"

(***************************************************************************)
(* Properties of the sink fan-out                                          *)
(***************************************************************************)
\* C10: for every sink the calls of frame k all come before any call of
\* frame k+1, and every sink with an update method gets update exactly once
\* per dispatched frame, after all process calls of that frame.
C10_FrameOrder ==
    \A i \in DOMAIN lightservices :
        LET log == calls[i] IN
        /\ \A a, b \in DOMAIN log : a < b => log[a].frame <= log[b].frame
        /\ lightservices[i] \in {"Onset", "SpectralOnset"} =>
             \A k \in 1..disp_frame :
                /\ Cardinality({a \in DOMAIN log :
                                  log[a] = Call(k, "update")}) = 1
                /\ \A a, b \in DOMAIN log :
                      (log[a] = Call(k, "update") /\ log[b].frame = k
                          /\ log[b].op # "update") => b < a

(***************************************************************************)
(* Properties of the startup                                               *)
(***************************************************************************)
\* C13: once startup is over, every configured endpoint whose construction
\* succeeds is in the sink list, whether or not another endpoint failed.
C13_OtherEndpointsStart ==
    startup # "configured" =>
        /\ \A i \in DOMAIN config.wled :
              config.wled[i].ok =>
                 \E j \in DOMAIN started :
                    started[j] = Sink(config.wled[i].kind, i)
        /\ \A i \in DOMAIN config.hue :
              config.hue[i].ok =>
                 \E j \in DOMAIN started : started[j] = Sink("hue", i)

(***************************************************************************)
(* Properties of the envelopes and the bridge sink                         *)
(***************************************************************************)
EnvelopeNames == {"fullband", "drum", "hihat", "note"}

\* C14: an onset triggers the envelope its kind is matched to (trigger time
\* := now, strength := s) iff s is strictly greater than the envelope's
\* value at that instant; every other envelope, and every envelope on an
\* onset of a non-matching kind, is left unchanged.
C14_TriggerIffLouder ==
    [][hue_event' # NoEvent =>
          \A name \in EnvelopeNames :
             hue_state'[name] =
                IF /\ EnvelopeOf(hue_event'.kind) = name
                   /\ hue_event'.strength > GetValue(hue_state[name], now)
                THEN [hue_state[name] EXCEPT !.trigger_time = now,
                                             !.strength = hue_event'.strength]
                ELSE hue_state[name]]_vars

C14_Witness ==
    /\ hue_event.kind = "Kick" /\ hue_event.strength > 0
    /\ hue_state.drum.trigger_time = now /\ now > 0
    /\ hue_state.drum.strength = hue_event.strength
    /\ hue_state.hihat.strength > 0 /\ hue_state.hihat.trigger_time < now

C19_DefaultColours ==
    hue_datagram # <<>> =>
        LET kick == (GetValue(hue_state.drum, now) * 65535) \div 1000
            white == ((GetValue(hue_state.hihat, now) * 65535) \div 1000) \div 8
            note == ((GetValue(hue_state.note, now) * 65535) \div 1000) \div 2
            R == Min2(65535, kick + white)
            G == white
            B == Min2(65535, note + white)
            p == Len(hue_state.prefix)
        IN  /\ Len(hue_datagram) = p + 7 * Len(hue_state.channels)
            /\ SubSeq(hue_datagram, 1, p) = hue_state.prefix
            /\ \A i \in 1..Len(hue_state.channels) :
                  SubSeq(hue_datagram, p + 7 * (i - 1) + 1, p + 7 * i) =
                     <<hue_state.channels[i],
                       R \div 256, R % 256, G \div 256, G % 256,
                       B \div 256, B % 256>>

C19_Witness ==
    /\ hue_datagram # <<>>
    /\ Len(hue_state.channels) > 0
    /\ GetValue(hue_state.drum, now) = 1000
    /\ GetValue(hue_state.hihat, now) > 0
    /\ GetValue(hue_state.note, now) > 0

(***************************************************************************)
(* Properties of the mel filter bank                                       *)
(***************************************************************************)
\* the bins some band of the bank covers
CoveredBins == UNION {BandBins(mel_bank, m) : m \in 1..Len(mel_bank.filter)}

\* C16: in every bank with at least one band, at every bin the weights of
\* the bands covering it sum to at most 1, and two bands that are not
\* adjacent have no bin in common
C16_MelWeights ==
    Len(mel_bank.filter) >= 1 =>
        /\ \A k \in CoveredBins :
              LET sum == WeightSum(mel_bank, Len(mel_bank.filter), k)
              IN  sum[1] <= sum[2]
        /\ \A m, n \in 1..Len(mel_bank.filter) :
              n >= m + 2 => BandBins(mel_bank, m) \cap BandBins(mel_bank, n) = {}

\* a bank of three bands was applied to a frame, and one of its bins lies on
\* the falling slope of a band and the rising slope of the next, with weights
\* that are both positive and sum to exactly 1
C16_Witness ==
    /\ Len(mel_bank.filter) >= 3
    /\ mel_spectrum # <<>>
    /\ ~mel_out.panicked
    /\ Len(mel_out.out) = Len(mel_bank.filter)
    /\ \E m \in 1..(Len(mel_bank.filter) - 1) :
          \E k \in BandBins(mel_bank, m) \cap BandBins(mel_bank, m + 1) :
             /\ WeightAt(mel_bank, m, k)[1] > 0
             /\ WeightAt(mel_bank, m + 1, k)[1] > 0
             /\ LET sum == WeightSum(mel_bank, Len(mel_bank.filter), k)
                IN  sum[1] = sum[2]

PixelOf(datagram, ch, i) == SubSeq(datagram, 3 + ch * i, 2 + ch * (i + 1))

\* C18: a datagram of the onset sink is the 2-byte prefix (mode 2 for RGB or
\* 3 for RGBW, then the timeout) and exactly led_count pixels of 3 or 4
\* bytes, and pixel i equals pixel led_count - 1 - i
C18_OnsetDatagram ==
    onset_datagram # <<>> =>
        LET n == onset_state.led_count
            ch == IF onset_state.rgbw THEN 4 ELSE 3
        IN  /\ SubSeq(onset_datagram, 1, 2)
                  = <<IF onset_state.rgbw THEN 3 ELSE 2, DefaultOnsetTimeout>>
            /\ Len(onset_datagram) = 2 + n * ch
            /\ \A i \in 0..(n - 1) :
                  PixelOf(onset_datagram, ch, i) = PixelOf(onset_datagram, ch, n - 1 - i)

(***************************************************************************)
(* Properties of the file serializer                                       *)
(***************************************************************************)
\* every onset that is not Raw is stored under the key of its kind with
\* the timestamp frame * time_interval of the frame it arrived in, Raw values
\* are only in raw, in arrival order, and the timestamp is the number of
\* update calls times time_interval
C20_Stored ==
    /\ onset_container.time = ser_updates * onset_container.time_interval
    /\ \A key \in ContainerKeys :
          LET IsKey(call) == call.event.kind = key
              stored == SelectSeq(ser_calls, IsKey)
          IN  onset_container.data[key] =
                 [i \in 1..Len(stored) |->
                     <<stored[i].frame * onset_container.time_interval, stored[i].event>>]
    /\ LET IsRaw(call) == call.event.kind = "Raw"
           stored == SelectSeq(ser_calls, IsRaw)
       IN  onset_container.raw = [i \in 1..Len(stored) |-> stored[i].event.strength]

\* update leaves data and raw as they are and advances time by time_interval
C20_UpdateOnlyTime ==
    ser_updates' = ser_updates + 1 =>
          /\ onset_container'.data = onset_container.data
          /\ onset_container'.raw = onset_container.raw
          /\ onset_container'.time_interval = onset_container.time_interval
          /\ onset_container'.time = onset_container.time + onset_container.time_interval

C23_SilentRun ==
    pipeline.left = 0 =>
        /\ pipeline.frames = 20
        /\ pipeline.onsets = <<>>
        /\ pipeline.container.raw
              = IF pipeline.detector = "SpecFlux" THEN Zeros(20) ELSE <<>>

\* the number of times sample x was run through the filters
FilterRuns(x) ==
    Cardinality({i \in 1..Len(spectrum_blocks) :
                    spectrum_blocks[i][1] <= x /\ x <= spectrum_blocks[i][2]})

\* C25: the sink has produced one pixel per complete block of
\* samples_per_led samples, the band energies of pixel i are taken from the
\* samples of block i and no others, no sample has run through the filters
\* more than once, and fewer than samples_per_led samples are buffered
C25_OnePixelPerBlock ==
    LET spl == spectrum_state.samples_per_led
    IN  /\ Len(spectrum_blocks) = spectrum_received \div spl
        /\ \A i \in 1..Len(spectrum_blocks) :
              spectrum_blocks[i] = <<(i - 1) * spl, i * spl - 1>>
        /\ \A x \in 0..(spectrum_received - 1) : FilterRuns(x) <= 1
        /\ spectrum_state.sample_buffer < spl

(***************************************************************************)
(* Properties of the processing nodes                                      *)
(***************************************************************************)
\* C27: a Window node that has received T >= size items and is waiting for
\* the next message has emitted floor((T - size) / hop_size) + 1 frames (none
\* for T < size), frame k (from 0) being the size items from offset
\* k * hop_size of the concatenated input.
C27_WindowFrames ==
    (node.kind = "Window" /\ Len(node_tasks) = 1 /\ node_tasks[1].pc = "recv") =>
        LET T == Len(node_received)
        IN  /\ Len(node_sent) = IF T >= node.size
                                THEN (T - node.size) \div node.hop_size + 1
                                ELSE 0
            /\ \A k \in 1..Len(node_sent) :
                  node_sent[k] = SubSeq(node_received, (k - 1) * node.hop_size + 1,
                                        (k - 1) * node.hop_size + node.size)

\* C28: for every node kind, a forwarding task whose receiver is closed and
\* drained terminates, provided the node's own channel ends up with a
\* subscriber for good (so that no send is retried forever).
C28_ClosedTerminates ==
    <>[]subscribers =>
    \A i \in 1..MaxTasks :
        (/\ i <= Len(node_tasks)
         /\ upstream.closed
         /\ node_tasks[i].queue = <<>>)
           ~> (i <= Len(node_tasks) /\ ~Alive(node_tasks[i]))

C30_NoUnderflow ==
    /\ file.panicked = "no"
    /\ (file.left = 0 /\ file.length < file.buffer_size - file.hop_size) =>
          file.frames = 0

====
